---- MODULE Spec2Model ----
(***************************************************************************)
(* A model of the form-assistance application.                            *)
(*                                                                         *)
(* The repository holds two entry components over the same content type:  *)
(*   - App (src/unnamed/part_001, "src/App.tsx"): the single-page form    *)
(*     with answers/files/proofs/stars/books stores, the review builder   *)
(*     (backend, then Gemini, then the local default) and the exporters;  *)
(*   - FormFlow (src/index.tsx): the step-by-step flow with one answer    *)
(*     record per question, durable progress and the debounced            *)
(*     per-question generation.                                            *)
(* Each has its own specification: SpecApp; SpecFlow, a session of         *)
(* FormFlow with every user event, and SpecEdit, a longer session of edits *)
(* to the question shown.  The pure functions are exercised on drawn       *)
(* inputs: the visibility resolvers (SpecResolve, SpecDepend), the loader  *)
(* of saved progress (SpecLoad), the structured export (SpecExport), the   *)
(* prompt builder (SpecPrompt) and the rendering of groups (SpecGroup).    *)
(* The service worker (src/public/sw.js) has SpecWorker.                   *)
(***************************************************************************)
EXTENDS Integers, Sequences, FiniteSets, TLC

(***************************************************************************)
(* JavaScript values.  Every value carries its type tag, so that values    *)
(* of different types are unequal instead of incomparable.                 *)
(***************************************************************************)
\* One shape for every value: the tag, and the payload field the tag uses.
JsValue(tag, str, num, arr, obj) ==
  [t |-> tag, s |-> str, n |-> num, a |-> arr, o |-> obj]

Undef == JsValue("undefined", "", 0, << >>, << >>)

Null == JsValue("null", "", 0, << >>, << >>)

Str(s) == JsValue("string", s, 0, << >>, << >>)

Num(n) == JsValue("number", "", n, << >>, << >>)

\* a: the sequence of the elements.
Arr(a) == JsValue("array", "", 0, a, << >>)

\* o: the sequence of the [k, v] entries, in insertion order.
Obj(o) == JsValue("object", "", 0, << >>, o)

\* A JS object with insertion-ordered keys: a sequence of [k, v] entries.
EmptyObj == << >>

Keys(o) == [i \in 1..Len(o) |-> o[i].k]

KeySet(o) == {o[i].k : i \in 1..Len(o)}

Has(o, k) == k \in KeySet(o)

\* o[k]: the value of the entry with key k, undefined when there is none.
Get(o, k) ==
  IF Has(o, k) THEN o[CHOOSE i \in 1..Len(o) : o[i].k = k].v ELSE Undef

\* { ...o, [k]: v }: an existing key keeps its place, a new key goes last.
Put(o, k, v) ==
  IF Has(o, k)
    THEN [i \in 1..Len(o) |-> IF o[i].k = k THEN [k |-> k, v |-> v] ELSE o[i]]
    ELSE Append(o, [k |-> k, v |-> v])

RECURSIVE JoinStrings(_, _)
\* Array.prototype.join over the already converted elements.
JoinStrings(ss, sep) ==
  IF Len(ss) = 0 THEN ""
  ELSE IF Len(ss) = 1 THEN ss[1]
  ELSE ss[1] \o sep \o JoinStrings(Tail(ss), sep)

\* String(v) for the values the stores hold; the elements of an array are
\* strings here (option values), null and undefined elements join as "".
JsString(v) ==
  CASE v.t = "undefined" -> "undefined"
    [] v.t = "null" -> "null"
    [] v.t = "string" -> v.s
    [] v.t = "number" -> ToString(v.n)
    [] v.t = "array" ->
         JoinStrings([i \in 1..Len(v.a) |->
                        IF v.a[i].t \in {"undefined", "null"} THEN ""
                        ELSE IF v.a[i].t = "string" THEN v.a[i].s
                        ELSE IF v.a[i].t = "number" THEN ToString(v.a[i].n)
                        ELSE "[object Object]"], ",")
    [] OTHER -> "[object Object]"

\* !v : the falsy values of JavaScript.
Falsy(v) ==
  \/ v.t \in {"undefined", "null"}
  \/ v.t = "string" /\ v.s = ""
  \/ v.t = "number" /\ v.n = 0

\* A File object; only its name is ever read.
File(name) == JsValue("file", name, 0, << >>, << >>)

(***************************************************************************)
(* The content catalogue (formContent).  The modules and questions are     *)
(* those of the source; a module is cut to its first MaxQuestions          *)
(* questions, and of a question only the fields the logic reads are kept.  *)
(***************************************************************************)
MaxQuestions == 2

Langs == {"fa", "en", "uk"}

Question(id, type, options, when, allowProof, starEnabled, bookEnabled) ==
  [id |-> id, type |-> type, options |-> options,
   hasWhen |-> when # << >>, when |-> when,
   allowProof |-> allowProof, starEnabled |-> starEnabled,
   bookEnabled |-> bookEnabled, children |-> << >>]

NoOptions == << >>

NoWhen == << >>

pipQuestions ==
  << Question("preparing_food", "long-text", NoOptions, NoWhen, TRUE, TRUE, TRUE),
     Question("eating_drinking", "long-text", NoOptions, NoWhen, TRUE, TRUE, TRUE),
     Question("managing_treatments", "long-text", NoOptions, NoWhen, TRUE, TRUE, TRUE) >>

hmrcQuestions ==
  << Question("hmrc_flow", "single-select",
              <<"self_assessment", "child_tax_credit">>, NoWhen,
              FALSE, FALSE, FALSE),
     Question("sa_utr", "short-text", NoOptions,
              << <<"hmrc_flow", "self_assessment">> >>, TRUE, FALSE, FALSE) >>

councilTaxQuestions ==
  << Question("local_council", "short-text", NoOptions, NoWhen,
              FALSE, FALSE, FALSE),
     Question("income", "single-select",
              <<"job", "benefits", "pension", "none">>, NoWhen,
              TRUE, FALSE, FALSE),
     Question("other_notes", "long-text", NoOptions, NoWhen,
              FALSE, FALSE, FALSE) >>

\* The modules of the catalogue a session can pick.
ModuleIds == {"pip", "council_tax", "hmrc_forms"}

AllQuestions(m) ==
  CASE m = "pip" -> pipQuestions
    [] m = "council_tax" -> councilTaxQuestions
    [] m = "hmrc_forms" -> hmrcQuestions

formContent(m) ==
  [moduleId |-> m,
   questions |-> SubSeq(AllQuestions(m), 1,
                        IF Len(AllQuestions(m)) < MaxQuestions
                          THEN Len(AllQuestions(m)) ELSE MaxQuestions)]

(***************************************************************************)
(* App (src/App.tsx): visibility of a question.                            *)
(***************************************************************************)
\* Object.entries(q.when).every(...) over the answers object.
visibleByWhen(q, ans) ==
  IF ~q.hasWhen THEN TRUE
  ELSE \A i \in 1..Len(q.when) :
         JsString(Get(ans, q.when[i][1])) = JsString(Str(q.when[i][2]))

(***************************************************************************)
(* State.                                                                  *)
(***************************************************************************)
VARIABLES
  \* App (src/App.tsx)
  lang,        \* useState<Lang>('fa')
  moduleKey,   \* useState<string>('pip')
  answers,     \* Record<string, any>
  files,       \* Record<string, File | null>
  proofs,      \* Record<string, File | null>
  stars,       \* Record<string, number>
  books,       \* Record<string, number>
  review,      \* FormCheckerResponse | null
  loading,     \* boolean
  error,       \* string | null
  apiUrl,      \* import.meta.env.VITE_API_URL is set
  geminiKey,   \* import.meta.env.VITE_GOOGLE_API_KEY is set
  build,       \* the running onBuildReview call: where it waits, what it closed over
  built,       \* history: how the last finished build got its review
  \* FormFlow (src/index.tsx)
  flowLang,     \* App: useState<Lang>("fa")
  active,       \* App: useState(modulesList[0]?.id)
  currentIndex, \* FormFlow: useState(0)
  flowAnswers,  \* FormFlow: the answer records, one per question at mount
  flowLoading,  \* FormFlow: useState(false)
  storage,      \* localStorage: module id -> the saved list, or none
  timer,        \* the pending window.setTimeout of the generation effect
  inflight,     \* the geminiGenerateText calls not yet settled
  crashed,      \* a render threw: React unmounted the tree
  now,          \* ms since the pending timer was set
  issued,       \* generation requests issued so far
  history,      \* history: the last user event and the run of rapid edits
  probe,        \* the input drawn for a pure function, and what it returned
  worker,       \* the service worker (src/public/sw.js) and the origin's CacheStorage
  events        \* user input events the session has left (bounds the run)

appVars ==
  <<lang, moduleKey, answers, files, proofs, stars, books, review, loading,
    error, apiUrl, geminiKey, build, built>>

flowVars ==
  <<flowLang, active, currentIndex, flowAnswers, flowLoading, storage, timer,
    inflight, crashed, now, issued, history>>

vars == <<appVars, flowVars, probe, worker, events>>

\* No service worker is registered.
NoWorker == [phase |-> "none"]

\* User input events of one session of App.
MaxEvents == 3

\* One more user event, while the session's bound allows it.
UserEvent ==
  /\ events > 0
  /\ events' = events - 1

\* called: the sources the call has consulted so far, in order.
NoBuild ==
  [pc |-> "idle", lang |-> "fa", moduleKey |-> "pip", answers |-> EmptyObj,
   unparsed |-> FALSE, called |-> << >>]

\* path: "none", "merged" (a response was spread over the default) or
\* "default"; data: the merged response; lang, moduleKey, answers: what the
\* call closed over; unparsed: a response of the call did not parse;
\* called: the sources the call consulted, in order; source: the one whose
\* parsed response was merged ("none" for the default).
NoBuilt ==
  [path |-> "none", data |-> Null, lang |-> "fa", moduleKey |-> "pip",
   answers |-> EmptyObj, unparsed |-> FALSE, called |-> << >>,
   source |-> "none"]

InitAppState ==
  /\ lang = "fa"
  /\ moduleKey = "pip"
  /\ answers = EmptyObj
  /\ files = EmptyObj
  /\ proofs = EmptyObj
  /\ stars = EmptyObj
  /\ books = EmptyObj
  /\ review = Null
  /\ loading = FALSE
  /\ error = Null
  /\ build = NoBuild
  /\ built = NoBuilt

\* App is the mounted entry; the build's environment is either way.
InitApp ==
  /\ InitAppState
  /\ events = MaxEvents
  /\ apiUrl \in BOOLEAN
  /\ geminiKey \in BOOLEAN

\* App is not the mounted entry.
InitAppIdle ==
  /\ InitAppState
  /\ apiUrl = FALSE
  /\ geminiKey = FALSE

mod == formContent(moduleKey)

\* The effect on [moduleKey, lang], and hardReset: the same seven setters.
ResetStores ==
  /\ answers' = EmptyObj
  /\ files' = EmptyObj
  /\ proofs' = EmptyObj
  /\ stars' = EmptyObj
  /\ books' = EmptyObj
  /\ review' = Null
  /\ error' = Null

\* <select value={lang} onChange>: fires for another locale; then the effect.
SetLang(l) ==
  /\ UserEvent
  /\ l # lang
  /\ lang' = l
  /\ ResetStores
  /\ UNCHANGED <<flowVars, probe, worker, moduleKey, loading, apiUrl, geminiKey, build, built>>

\* <select value={moduleKey} onChange>: fires for another module; then the effect.
SetModuleKey(m) ==
  /\ UserEvent
  /\ m # moduleKey
  /\ moduleKey' = m
  /\ ResetStores
  /\ UNCHANGED <<flowVars, probe, worker, lang, loading, apiUrl, geminiKey, build, built>>

hardReset ==
  /\ UserEvent
  /\ ResetStores
  /\ UNCHANGED <<flowVars, probe, worker, lang, moduleKey, loading, apiUrl, geminiKey, build, built>>

\* The questions renderQuestion draws an input for.
Rendered == {mod.questions[i] : i \in {j \in 1..Len(mod.questions) :
                                        visibleByWhen(mod.questions[j], answers)}}

\* What the input of a question can hand to onAnswerChange.
TextInputs == {Str("a"), Str("")}

InputValues(q) ==
  CASE q.type = "single-select" -> {Str(q.options[i]) : i \in 1..Len(q.options)}
    [] q.type \in {"currency", "number"} -> {Num(0), Num(5)}
    [] q.type \in {"short-text", "long-text", "date"} -> TextInputs
    [] OTHER -> {}

\* setAnswers(() => ({ [id]: value })): the store replaced, not spread.
onAnswerChangeReplacing(id, value) ==
  /\ answers' = <<[k |-> id, v |-> value]>>
  /\ UNCHANGED <<flowVars, probe, worker, lang, moduleKey, files, proofs, stars, books, review, loading,
                 error, apiUrl, geminiKey, build, built>>

onAnswerChange(id, value) ==
  /\ answers' = Put(answers, id, value)
  /\ UNCHANGED <<flowVars, probe, worker, lang, moduleKey, files, proofs, stars, books, review, loading,
                 error, apiUrl, geminiKey, build, built>>

AnswerInput ==
  \E q \in Rendered : \E v \in InputValues(q) :
    /\ UserEvent
    /\ v # (IF Has(answers, q.id) THEN Get(answers, q.id) ELSE Str(""))
    /\ onAnswerChange(q.id, v)

FileInputs == {Null, File("letter.pdf")}

\* e.target.files?.[0] || null, into files (a file question) or proofs.
onFileChange(id, f, target) ==
  /\ IF target = "files"
       THEN files' = Put(files, id, f) /\ UNCHANGED proofs
       ELSE proofs' = Put(proofs, id, f) /\ UNCHANGED files
  /\ UNCHANGED <<flowVars, probe, worker, lang, moduleKey, answers, stars, books, review, loading,
                 error, apiUrl, geminiKey, build, built>>

FileInput ==
  \E q \in Rendered : \E f \in FileInputs : \E target \in {"files", "proofs"} :
    /\ UserEvent
    /\ IF target = "files" THEN q.type = "file" ELSE q.allowProof
    /\ onFileChange(q.id, f, target)

\* The range inputs of renderStarsAndBooks: min 1, max 5, shown value ?? 3 / ?? 2.
SliderMin == 1

SliderMax == 5

\* The slider positions a session tries: both ends of the range.
SliderInputs == {SliderMin, SliderMax}

StarsInput ==
  \E q \in Rendered : \E n \in SliderInputs :
    /\ UserEvent
    /\ q.starEnabled
    /\ Num(n) # (IF Has(stars, q.id) THEN Get(stars, q.id) ELSE Num(3))
    /\ stars' = Put(stars, q.id, Num(n))
    /\ UNCHANGED <<flowVars, probe, worker, lang, moduleKey, answers, files, proofs, books, review,
                   loading, error, apiUrl, geminiKey, build, built>>

BooksInput ==
  \E q \in Rendered : \E n \in SliderInputs :
    /\ UserEvent
    /\ q.bookEnabled
    /\ Num(n) # (IF Has(books, q.id) THEN Get(books, q.id) ELSE Num(2))
    /\ books' = Put(books, q.id, Num(n))
    /\ UNCHANGED <<flowVars, probe, worker, lang, moduleKey, answers, files, proofs, stars, review,
                   loading, error, apiUrl, geminiKey, build, built>>

(***************************************************************************)
(* App: the review builder.                                                *)
(***************************************************************************)
Entry(k, v) == [k |-> k, v |-> v]

\* The texts of the default review.  The Farsi and Ukrainian texts are named,
\* not spelled out; the English ones are the source's.
SummaryText(l) ==
  CASE l = "fa" -> "(fa) preliminary summary generated from your answers"
    [] l = "uk" -> "(uk) preliminary summary generated from your answers"
    [] OTHER -> "A preliminary summary was generated from your answers."

DefaultScores ==
  Obj(<< Entry("completeness", Num(4)), Entry("consistency", Num(4)),
         Entry("evidence_linkage", Num(3)), Entry("relevance", Num(4)),
         Entry("tone_clarity", Num(4)), Entry("risk_flags", Num(2)) >>)

\* answers[k] ?? '' : the value, or '' for null and undefined.
OrEmpty(v) == IF v.t \in {"undefined", "null"} THEN Str("") ELSE v

\* A default review that leaves the score breakdown out.
safeDefaultReviewWithoutScores(l, m, ans) ==
  << Entry("language", Str(l)),
     Entry("form_type", Str(m)),
     Entry("overall_stars", Num(4)),
     Entry("translation_summary", Str(SummaryText(l))) >>

\* The review built from the module, locale and answers alone.
safeDefaultReview(l, m, ans) ==
  << Entry("language", Str(l)),
     Entry("form_type", Str(m)),
     Entry("overall_stars", Num(4)),
     Entry("scores", DefaultScores),
     Entry("translation_summary", Str(SummaryText(l))),
     Entry("key_findings",
           Arr(<< Str("Answers provided for most key areas."),
                  Str("Consider linking proofs explicitly to claims."),
                  Str("Tone is generally clear; add concrete daily examples.") >>)),
     Entry("missing_evidence",
           Arr(<< Str("Recent medical letter"),
                  Str("Proof of address (if applicable)") >>)),
     Entry("improvements",
           Arr([i \in 1..Len(ans) |->
                  Obj(<< Entry("section_id", Str(ans[i].k)),
                         Entry("before_" \o l, Str(JsString(OrEmpty(ans[i].v)))),
                         Entry("after_" \o l, Str("")),
                         Entry("rationale_" \o l, Str("")) >>)])),
     Entry("per_question_scores",
           Obj([i \in 1..Len(ans) |-> Entry(ans[i].k, Num(4))])),
     Entry("next_steps_fa", Arr(<< Str("(fa) review answers"),
                                   Str("(fa) attach evidence"),
                                   Str("(fa) submit the form") >>)),
     Entry("next_steps_en", Arr(<< Str("Review answers"), Str("Attach evidence"),
                                   Str("Submit the form") >>)),
     Entry("next_steps_uk", Arr(<< Str("(uk) review answers"),
                                   Str("(uk) attach evidence"),
                                   Str("(uk) submit the form") >>)),
     Entry("disclaimer_fa", Str("(fa) not a substitute for professional advice")),
     Entry("disclaimer_en",
           Str("This guidance is not a substitute for professional advice.")),
     Entry("disclaimer_uk", Str("(uk) not a substitute for professional advice")) >>

\* The own enumerable properties a spread copies: the entries of an object,
\* the indexed characters of a string, the indexed elements of an array,
\* nothing for null, undefined and numbers.
SpreadEntries(d) ==
  CASE d.t = "object" -> d.o
    [] d.t = "array" -> [i \in 1..Len(d.a) |-> Entry(ToString(i - 1), d.a[i])]
    [] d.t = "string" ->
         [i \in 1..Len(d.s) |-> Entry(ToString(i - 1), Str(SubSeq(d.s, i, i)))]
    [] OTHER -> << >>

RECURSIVE PutAll(_, _)
PutAll(o, es) ==
  IF Len(es) = 0 THEN o ELSE PutAll(Put(o, es[1].k, es[1].v), Tail(es))

\* { ...data, ...safeDefaultReview() }: the default wins.
MergeDefaultWins(def, data) == PutAll(SpreadEntries(data), def)

\* A merge that goes into nested objects key by key.
MergeDeep(def, data) ==
  PutAll(def,
         [i \in 1..Len(SpreadEntries(data)) |->
            IF /\ SpreadEntries(data)[i].v.t = "object"
               /\ Get(def, SpreadEntries(data)[i].k).t = "object"
              THEN Entry(SpreadEntries(data)[i].k,
                         Obj(PutAll(Get(def, SpreadEntries(data)[i].k).o,
                                    SpreadEntries(data)[i].v.o)))
              ELSE SpreadEntries(data)[i]])

\* { ...safeDefaultReview(), ...data }
MergeReview(def, data) == PutAll(def, SpreadEntries(data))

\* What an external source can send as its JSON value: objects carrying some
\* of the review's fields, well-formed or not, and values that are no objects.
FullScoresSent ==
  Obj(<< Entry("completeness", Num(5)), Entry("consistency", Num(5)),
         Entry("evidence_linkage", Num(5)), Entry("relevance", Num(5)),
         Entry("tone_clarity", Num(5)), Entry("risk_flags", Num(1)) >>)

ResponseObjects ==
  { Obj(<< >>),
    Obj(<< Entry("overall_stars", Num(5)) >>),
    Obj(<< Entry("overall_stars", Num(9)) >>),
    Obj(<< Entry("scores", FullScoresSent),
           Entry("translation_summary", Str("remote summary")) >>),
    Obj(<< Entry("scores", Obj(<< Entry("completeness", Num(5)) >>)) >>),
    Obj(<< Entry("scores", Null) >>) }

ResponseValues == ResponseObjects \cup {Null, Str("ok")}

\* The outcomes of POST ${apiUrl}/form-check, up to the parsed body.
BackendOutcomes ==
  {[kind |-> k, data |-> Null] : k \in {"network_error", "bad_status", "bad_json"}}
    \cup {[kind |-> "json", data |-> d] : d \in ResponseValues}

\* The text a Gemini answer carries, by its layout around the JSON:
\*   empty      nothing but white space
\*   json       the JSON text alone
\*   fenced     a markdown fence around the JSON text
\*   trailing   the JSON text followed by prose on its last line
\*   prose      no JSON at all
GeminiTexts ==
  {[kind |-> k, data |-> Null] : k \in {"empty", "prose"}}
    \cup {[kind |-> k, data |-> d] : k \in {"json", "fenced", "trailing"},
                                     d \in ResponseValues}

\* text.match(/\{[\s\S]*\}$/m), then JSON.parse of the match or of the text:
\* the match is the run from the first brace to the last brace that ends a
\* line, so a fence is stripped from an object and prose after it is not.
ParseReviewText(text) ==
  CASE text.kind = "json" -> [ok |-> TRUE, data |-> text.data]
    [] text.kind = "fenced" /\ text.data.t = "object" ->
         [ok |-> TRUE, data |-> text.data]
    [] OTHER -> [ok |-> FALSE, data |-> Null]

GeminiOutcomes ==
  {[kind |-> k, text |-> [kind |-> "empty", data |-> Null]] :
     k \in {"no_key", "import_failed", "rejected"}}
    \cup {[kind |-> "text", text |-> t] : t \in GeminiTexts}

GeminiFailedMessage == Str("AI review fallback used (Gemini parsing failed).")

\* A builder that skips the backend.
FirstSourceGemini(url) == "gemini"

\* if (apiUrl) { ... }: the source buildAIReview consults first.
FirstSource(url) == IF url THEN "backend" ELSE "gemini"

\* onBuildReview up to the first await: setLoading(true), setError(null), and
\* the closure of this render (lang, moduleKey, answers) that every later
\* step of the call reads.
onBuildReview ==
  /\ UserEvent
  /\ ~loading
  /\ loading' = TRUE
  /\ error' = Null
  /\ build' = [pc |-> FirstSource(apiUrl),
               lang |-> lang, moduleKey |-> moduleKey, answers |-> answers,
               unparsed |-> FALSE, called |-> << >>]
  /\ UNCHANGED <<flowVars, probe, worker, lang, moduleKey, answers, files, proofs, stars,
                 books, review, apiUrl, geminiKey, built>>

\* onBuildReview without its finally: setReview(r) and nothing after it.
FinishBuildStillLoading(r, path, data, unparsed, called, source) ==
  /\ review' = Obj(r)
  /\ loading' = TRUE
  /\ build' = NoBuild
  /\ built' = [path |-> path, data |-> data, lang |-> build.lang,
               moduleKey |-> build.moduleKey, answers |-> build.answers,
               unparsed |-> unparsed, called |-> called, source |-> source]

\* buildAIReview returned r: setReview(r), then finally setLoading(false).
FinishBuild(r, path, data, unparsed, called, source) ==
  /\ review' = Obj(r)
  /\ loading' = FALSE
  /\ build' = NoBuild
  /\ built' = [path |-> path, data |-> data, lang |-> build.lang,
               moduleKey |-> build.moduleKey, answers |-> build.answers,
               unparsed |-> unparsed, called |-> called, source |-> source]

BuildDefault == safeDefaultReview(build.lang, build.moduleKey, build.answers)

\* Step 1 of buildAIReview: the backend answered, or the call failed (fetch
\* rejected, a status that is not OK, a body res.json() cannot parse); a
\* failure is logged with console.warn and the builder goes on.
BackendStep(out) ==
  /\ build.pc = "backend"
  /\ IF out.kind = "json"
       THEN /\ FinishBuild(MergeReview(BuildDefault, out.data), "merged",
                           out.data, FALSE, Append(build.called, "backend"),
                           "backend")
            /\ UNCHANGED error
       ELSE /\ build' = [build EXCEPT !.pc = "gemini",
                                      !.unparsed = (out.kind = "bad_json"),
                                      !.called = Append(@, "backend")]
            /\ UNCHANGED <<review, loading, error, built>>
  /\ UNCHANGED <<flowVars, probe, worker, lang, moduleKey, answers, files, proofs, stars,
                 books, apiUrl, geminiKey, events>>

\* Steps 2 and 3: ensureGemini, generateContent, the parse, else the default.
GeminiStep(out) ==
  /\ build.pc = "gemini"
  /\ (out.kind = "no_key") = ~geminiKey
  /\ LET parsed == ParseReviewText(out.text)
         hasText == out.kind = "text" /\ out.text.kind # "empty"
         failed == out.kind = "rejected" \/ (hasText /\ ~parsed.ok)
         merged == hasText /\ parsed.ok
         called == IF out.kind \in {"rejected", "text"}
                     THEN Append(build.called, "gemini") ELSE build.called
     IN /\ error' = IF failed THEN GeminiFailedMessage ELSE error
        /\ IF merged
             THEN FinishBuild(MergeReview(BuildDefault, parsed.data), "merged",
                              parsed.data, build.unparsed, called, "gemini")
             ELSE FinishBuild(BuildDefault, "default", Null,
                              build.unparsed \/ (hasText /\ ~parsed.ok),
                              called, "none")
  /\ UNCHANGED <<flowVars, probe, worker, lang, moduleKey, answers, files, proofs, stars,
                 books, apiUrl, geminiKey, events>>

(***************************************************************************)
(* FormFlow (src/index.tsx): answer records, visibility, rendering.        *)
(* Its catalogue is imported from ./indexes, which is the same content     *)
(* type; the model runs it on formContent.                                 *)
(***************************************************************************)
\* The request text of generatePrompt, by what it is built from.  The PIP
\* template carries the impact and length lines, the generic one does not.
Prompt(template, l, qid, rating, length, value) ==
  [template |-> template, lang |-> l, question |-> qid,
   keys |-> <<"answer_" \o l, "explanation_" \o l>>,
   impact |-> rating, length |-> length, input |-> value]

NoPrompt == Prompt("", "", "", 0, 0, Undef)

GenericModules ==
  {"uc", "immigration", "carers_allowance", "nhs_forms", "student_finance",
   "council_tax", "blue_badge", "dvla_forms", "hmrc_forms"}

\* A generatePrompt that returns the PIP template for every module.
generatePromptPipOnly(m, l, qid, a) ==
  Prompt("pip", l, qid, a.rating, a.length, a.value)

\* generatePrompt: reads the answer record `a` of the render it closed over.
generatePrompt(m, l, qid, a) ==
  IF m = "pip" THEN Prompt("pip", l, qid, a.rating, a.length, a.value)
  ELSE IF m \in GenericModules THEN Prompt("multi", l, qid, 0, 0, a.value)
  ELSE Prompt("pip", l, qid, a.rating, a.length, a.value)

\* aiResponse: null, or what the timer callback stored for a request.
\*   parsed    JSON.parse of the cleaned text
\*   fallback  { answer_<lang>: raw }, or the locale's "no response" text
\*   error     { error: errs[lang] }
AiResponse(kind, l, prompt) == [kind |-> kind, lang |-> l, prompt |-> prompt]

NoResponse == AiResponse("null", "", NoPrompt)

DefaultValue(type) ==
  IF type = "multi-select" THEN Arr(<< >>)
  ELSE IF type = "group" THEN Obj(<< >>)
  ELSE Str("")

\* makeDefault of the useState initialiser.
makeDefault(m) ==
  LET qs == formContent(m).questions
  IN [i \in 1..Len(qs) |->
        [questionId |-> qs[i].id,
         rating |-> IF qs[i].starEnabled THEN 1 ELSE 0,
         length |-> 1,
         value |-> DefaultValue(qs[i].type),
         aiResponse |-> NoResponse]]

\* localStorage: no item, or the list JSON.stringify wrote.
NoBlob == [saved |-> FALSE, list |-> << >>]

\* A persist effect that writes the identifiers alone.
StoreOfIds(ans) ==
  [saved |-> TRUE,
   list |-> [i \in 1..Len(ans) |->
               [questionId |-> ans[i].questionId, rating |-> 0,
                length |-> 1, value |-> Str("")]]]

\* answers.map(({questionId, rating, length, value}) => ...), stringified.
StoreOf(ans) ==
  [saved |-> TRUE,
   list |-> [i \in 1..Len(ans) |->
               [questionId |-> ans[i].questionId, rating |-> ans[i].rating,
                length |-> ans[i].length, value |-> ans[i].value]]]

\* The useState initialiser: the defaults, with the saved rating, length and
\* value of the first saved entry of the same question id.
InitialAnswers(m, blob) ==
  IF ~blob.saved THEN makeDefault(m)
  ELSE LET def == makeDefault(m)
           Found(id) == {j \in 1..Len(blob.list) : blob.list[j].questionId = id}
           First(id) == blob.list[CHOOSE j \in Found(id) :
                                    \A k \in Found(id) : j <= k]
       IN [i \in 1..Len(def) |->
             IF Found(def[i].questionId) = {} THEN def[i]
             ELSE [def[i] EXCEPT
                     !.rating = First(def[i].questionId).rating,
                     !.length = First(def[i].questionId).length,
                     !.value = First(def[i].questionId).value]]

\* What localStorage.getItem returns for a key, whoever wrote it:
\*   none   null (no item)         empty  the empty string
\*   text   text JSON.parse rejects
\*   json   text JSON.parse accepts, with the value parsed
RawBlob(kind, data) == [kind |-> kind, data |-> data]

\* x.questionId, s.rating, ... : a property of a parsed value; undefined for
\* a value that is no object (a number, a string, a list) or lacks the key.
Property(x, k) == IF x.t = "object" THEN Get(x.o, k) ELSE Undef

\* The useState initialiser on any item: the records it returns, their
\* rating and length as the values they are (a saved entry can hold anything).
\* Inside the try: JSON.parse throws on text, parsed.find is no function
\* unless parsed is a list, and x.questionId throws on a null entry that find
\* gets to; the catch returns makeDefault().
LoadRecords(m, raw) ==
  LET def == makeDefault(m)
      DefaultRecord(i) ==
        [questionId |-> def[i].questionId, rating |-> Num(def[i].rating),
         length |-> Num(def[i].length), value |-> def[i].value,
         aiResponse |-> NoResponse]
      defaults == [i \in 1..Len(def) |-> DefaultRecord(i)]
      es == raw.data.a
      Match(i) == {j \in 1..Len(es) :
                     /\ es[j].t # "null"
                     /\ Property(es[j], "questionId") = Str(def[i].questionId)}
      First(i) == CHOOSE j \in Match(i) : \A k \in Match(i) : j <= k
      Scanned(i) == IF Match(i) = {} THEN 1..Len(es) ELSE 1..First(i)
      throws == \E i \in 1..Len(def) : \E j \in Scanned(i) : es[j].t = "null"
  IN IF raw.kind # "json" THEN defaults
     ELSE IF raw.data.t # "array" THEN defaults
     ELSE IF throws THEN defaults
     ELSE [i \in 1..Len(def) |->
             IF Match(i) = {} THEN DefaultRecord(i)
             ELSE [DefaultRecord(i) EXCEPT
                     !.rating = Property(es[First(i)], "rating"),
                     !.length = Property(es[First(i)], "length"),
                     !.value = Property(es[First(i)], "value")]]

\* answers.find((x) => x.questionId === k)?.value
FlowValueOf(ans, k) ==
  LET found == {j \in 1..Len(ans) : ans[j].questionId = k}
  IN IF found = {} THEN Undef
     ELSE ans[CHOOSE j \in found : \A i \in found : j <= i].value

\* FormFlow.visible without its first line (`if (!q.when) return true`).
FlowVisibleUnguarded(q, ans) ==
  IF Len(q.when) = 0 THEN "throws"
  ELSE IF FlowValueOf(ans, q.when[1][1]) = Str(q.when[1][2]) THEN "visible"
  ELSE "hidden"

\* The filter of FormFlow.visible for one question: the first entry of `when`
\* alone, compared with ===.  An empty `when` has no first entry to destructure.
FlowVisible(q, ans) ==
  IF ~q.hasWhen THEN "visible"
  ELSE IF Len(q.when) = 0 THEN "throws"
  ELSE IF FlowValueOf(ans, q.when[1][1]) = Str(q.when[1][2]) THEN "visible"
  ELSE "hidden"

\* visible: the questions of the module that pass the filter, in order.
visible(m, ans) ==
  SelectSeq(formContent(m).questions, LAMBDA q : FlowVisible(q, ans) = "visible")

IndexOfQuestion(m, id) ==
  LET qs == formContent(m).questions
      found == {j \in 1..Len(qs) : qs[j].id = id}
  IN IF found = {} THEN 0 ELSE CHOOSE j \in found : \A i \in found : j <= i

\* What one render of FormFlow computes from the visible list `vis`:
\* q = visible[currentIndex], originalIndex (here from 1, 0 for none) and
\* a = answers[originalIndex]; and whether the render throws.  The JSX reads
\* `a` unguarded in the input of the question, in the rating row and, unless
\* loading, in renderAI.
RenderOf(m, idx, ans, isLoading, vis, filterThrows) ==
  LET hasQ == ~filterThrows /\ idx + 1 <= Len(vis)
      q == vis[idx + 1]
      oi == IF hasQ THEN IndexOfQuestion(m, q.id) ELSE 0
      hasA == hasQ /\ oi <= Len(ans)
      readsA == \/ q.type \in {"short-text", "long-text", "currency", "number"}
                \/ q.type \in {"single-select", "multi-select"} /\ Len(q.options) > 0
                \/ q.type = "group" /\ Len(q.children) > 0
                \/ q.starEnabled \/ q.bookEnabled
                \/ ~isLoading
  IN [hasQ |-> hasQ, hasA |-> hasA, originalIndex |-> oi,
      throws |-> ~hasQ \/ (~hasA /\ readsA)]

\* One render.  (A singleton set binds a value once it is computed.)
Render(m, idx, ans, isLoading) ==
  CHOOSE r \in
    {RenderOf(m, idx, ans, isLoading, vis, filterThrows) :
       vis \in {visible(m, ans)},
       filterThrows \in {\E i \in 1..Len(formContent(m).questions) :
                           FlowVisible(formContent(m).questions[i], ans) = "throws"}} :
    TRUE

\* The pending timer of the generation effect and what its callback closed
\* over: originalIndex, lang, and the prompt generatePrompt builds from the
\* module, question and answer record of that render.
NoTimer == [set |-> FALSE, originalIndex |-> 0, lang |-> "", prompt |-> NoPrompt]

\* window.setTimeout(..., 600)
DebounceMs == 600

\* The clock advances in TicksPerDelay steps from a timer's start to its end.
TicksPerDelay == 1

TickMs == DebounceMs \div TicksPerDelay

\* A dependency list that leaves a?.value out.
DepsOfWithoutValue(r, l, idx, ans) ==
  IF r.hasA
    THEN <<Num(ans[r.originalIndex].rating), Num(ans[r.originalIndex].length),
           Undef, 0, idx, l>>
    ELSE <<Undef, Undef, Undef, 0, idx, l>>

\* The dependency list of the generation effect,
\* [a?.rating, a?.length, a?.value, currentIndex, lang], compared with
\* Object.is: a list or mapping value is the same only in the same record.
\* `r` is the render.
DepsOf(r, l, idx, ans) ==
  IF r.hasA
    THEN <<Num(ans[r.originalIndex].rating), Num(ans[r.originalIndex].length),
           ans[r.originalIndex].value,
           IF ans[r.originalIndex].value.t \in {"array", "object"}
             THEN r.originalIndex ELSE 0,
           idx, l>>
    ELSE <<Undef, Undef, Undef, 0, idx, l>>

Deps(l, m, idx, ans, isLoading) ==
  CHOOSE d \in {DepsOf(r, l, idx, ans) : r \in {Render(m, idx, ans, isLoading)}} :
    TRUE

\* isEmpty of the generation effect.
IsEmptyValue(v) ==
  \/ Falsy(v)
  \/ v.t = "array" /\ Len(v.a) = 0
  \/ v.t = "object" /\ Len(v.o) = 0

\* mustSkip of the generation effect.
mustSkip(q, rec) ==
  \/ q.starEnabled /\ rec.rating = 0
  \/ ~q.starEnabled /\ IsEmptyValue(rec.value)

\* A setProp that writes the property into every record.
setPropOfAll(ans, originalIndex, prop, value) ==
  CASE prop = "value" -> [i \in 1..Len(ans) |-> [ans[i] EXCEPT !.value = value]]
    [] prop = "rating" -> [i \in 1..Len(ans) |-> [ans[i] EXCEPT !.rating = value]]
    [] prop = "length" -> [i \in 1..Len(ans) |-> [ans[i] EXCEPT !.length = value]]
    [] prop = "aiResponse" ->
         [i \in 1..Len(ans) |-> [ans[i] EXCEPT !.aiResponse = value]]

\* prev[originalIndex] = { ...prev[originalIndex], [prop]: value }
setProp(ans, originalIndex, prop, value) ==
  CASE prop = "value" -> [ans EXCEPT ![originalIndex].value = value]
    [] prop = "rating" -> [ans EXCEPT ![originalIndex].rating = value]
    [] prop = "length" -> [ans EXCEPT ![originalIndex].length = value]
    [] prop = "aiResponse" -> [ans EXCEPT ![originalIndex].aiResponse = value]

\* One commit of FormFlow and the effects that follow it, for the render r.
\* `mounted` is TRUE for the first render (every effect runs); otherwise the
\* persist effect runs when setAnswers was called or the module id changed,
\* and the generation effect when its dependency list changed: its cleanup
\* clears the pending timer, then it returns (no q or a), clears the guidance
\* (mustSkip) or sets a new timer.  A render that throws unmounts the tree.
AfterRenderOf(r, mounted, oldDeps, oldModule, l, m, idx, ans, answersSet, stor, tm, clock) ==
  LET rerun == mounted \/ DepsOf(r, l, idx, ans) # oldDeps
      q == formContent(m).questions[r.originalIndex]
      rec == ans[r.originalIndex]
      skip == rerun /\ r.hasA /\ mustSkip(q, rec)
      arm == rerun /\ r.hasA /\ ~mustSkip(q, rec)
      ans2 == IF skip THEN setProp(ans, r.originalIndex, "aiResponse", NoResponse)
              ELSE ans
      persist == mounted \/ answersSet \/ m # oldModule \/ skip
  IN IF r.throws
       THEN [answers |-> ans, storage |-> stor, timer |-> NoTimer,
             now |-> clock, crashed |-> TRUE]
       ELSE [answers |-> ans2,
             storage |-> IF persist THEN [stor EXCEPT ![m] = StoreOf(ans2)]
                         ELSE stor,
             timer |-> IF arm
                         THEN [set |-> TRUE, originalIndex |-> r.originalIndex,
                               lang |-> l,
                               prompt |-> generatePrompt(m, l, q.id, rec)]
                       ELSE IF rerun THEN NoTimer ELSE tm,
             now |-> IF rerun THEN 0 ELSE clock,
             crashed |-> FALSE]

AfterRender(mounted, oldDeps, oldModule, l, m, idx, ans, isLoading, answersSet, stor, tm, clock) ==
  CHOOSE x \in
    {AfterRenderOf(r, mounted, oldDeps, oldModule, l, m, idx, ans, answersSet,
                   stor, tm, clock) : r \in {Render(m, idx, ans, isLoading)}} :
    TRUE

\* modulesList[0]?.id : the first key of formContent.
FirstModule == "pip"

\* User input events of one session of FormFlow.
MaxFlowEvents == 2

\* What the history keeps of a session:
\*   event   the kind of the last user event
\*   edits   the edits of the current run: edits to one question, each made
\*           before the timer of the one before it was due
\*   after   the request text of the state the last edit left
\*   skip    mustSkip in the state the last edit left
\*   issued  requests issued since the last user event
\*   sent    the request text of the last of them
NoHistory ==
  [event |-> "none", edits |-> 0, after |-> NoPrompt, skip |-> FALSE,
   issued |-> 0, sent |-> NoPrompt]

\* The page loads: App and FormFlow mount over what localStorage holds.
Mounted(stor) ==
  CHOOSE x \in
    {AfterRender(TRUE, << >>, FirstModule, "fa", FirstModule, 0, ans, FALSE,
                 FALSE, stor, NoTimer, 0) :
       ans \in {InitialAnswers(FirstModule, stor[FirstModule])}} :
    TRUE

InitFlow ==
  /\ flowLang = "fa"
  /\ active = FirstModule
  /\ currentIndex = 0
  /\ flowLoading = FALSE
  /\ \E s0 \in {Mounted([m \in ModuleIds |-> NoBlob])} :
       /\ flowAnswers = s0.answers
       /\ storage = s0.storage
       /\ timer = s0.timer
  /\ now = 0
  /\ crashed = FALSE
  /\ inflight = {}
  /\ issued = 0
  /\ history = NoHistory
  /\ events = MaxFlowEvents

\* The state after a user event or a callback changed FormFlow's or App's state.
\* `tm` is the timer still pending when the render starts.
Commit(l, m, idx, ans, isLoading, answersSet, tm) ==
  \E old \in {Deps(flowLang, active, currentIndex, flowAnswers, flowLoading)} :
    \E next \in {AfterRender(FALSE, old, active, l, m, idx, ans, isLoading,
                              answersSet, storage, tm, now)} :
      /\ flowLang' = l
      /\ active' = m
      /\ currentIndex' = idx
      /\ flowLoading' = isLoading
      /\ flowAnswers' = next.answers
      /\ storage' = next.storage
      /\ timer' = next.timer
      /\ now' = next.now
      /\ crashed' = next.crashed

\* The render FormFlow last committed.
Current == Render(active, currentIndex, flowAnswers, flowLoading)

(***************************************************************************)
(* FormFlow: the user's inputs, the timer and the generation requests.     *)
(***************************************************************************)
\* <select aria-label="language">: another locale; FormFlow keeps its state.
FlowSetLang(l) ==
  /\ UserEvent
  /\ ~crashed
  /\ l # flowLang
  /\ Commit(l, active, currentIndex, flowAnswers, flowLoading, FALSE, timer)
  /\ history' = [NoHistory EXCEPT !.event = "switch"]
  /\ UNCHANGED <<appVars, probe, worker, inflight, issued>>

\* A module card: setActive(m.id).  FormFlow is rendered without a key, so
\* the mounted instance gets the new moduleContent and keeps its state.
setActive(m) ==
  /\ UserEvent
  /\ ~crashed
  /\ m # active
  /\ Commit(flowLang, m, currentIndex, flowAnswers, flowLoading, FALSE, timer)
  /\ history' = [NoHistory EXCEPT !.event = "switch"]
  /\ UNCHANGED <<appVars, probe, worker, inflight, issued>>

\* Previous: disabled at the first question.
Previous ==
  /\ UserEvent
  /\ ~crashed
  /\ currentIndex > 0
  /\ Commit(flowLang, active, currentIndex - 1, flowAnswers, flowLoading,
            FALSE, timer)
  /\ history' = [NoHistory EXCEPT !.event = "move"]
  /\ UNCHANGED <<appVars, probe, worker, inflight, issued>>

\* Next: disabled at the last visible question.
NextQuestion ==
  /\ UserEvent
  /\ ~crashed
  /\ \E last \in {Len(visible(active, flowAnswers)) - 1} :
       /\ currentIndex # last
       /\ Commit(flowLang, active,
                 IF currentIndex + 1 < last THEN currentIndex + 1 ELSE last,
                 flowAnswers, flowLoading, FALSE, timer)
  /\ history' = [NoHistory EXCEPT !.event = "move"]
  /\ UNCHANGED <<appVars, probe, worker, inflight, issued>>

\* What typing hands to setAnswerProperty("value", e.target.value).
FlowTextInputs == {Str("a"), Str("ab"), Str("")}

FlowInputValues(q) ==
  CASE q.type = "single-select" -> {Str(q.options[i]) : i \in 1..Len(q.options)}
    [] q.type \in {"short-text", "long-text", "currency", "number"} -> FlowTextInputs
    [] OTHER -> {}

\* The history after an edit of the question q of the render `cur` left the
\* records ans2.
Edited(cur, q, ans2) ==
  LET rapid == /\ history.event = "edit"
               /\ history.issued = 0
               /\ timer.set => now < DebounceMs
  IN [event |-> "edit",
      edits |-> IF rapid THEN history.edits + 1 ELSE 1,
      after |-> generatePrompt(active, flowLang, q.id, ans2[cur.originalIndex]),
      skip |-> mustSkip(q, ans2[cur.originalIndex]),
      issued |-> 0, sent |-> NoPrompt]

\* setAnswerProperty(prop, value) of the render `cur`: setProp, the commit.
setAnswerProperty(cur, q, prop, value) ==
  \E ans2 \in {setProp(flowAnswers, cur.originalIndex, prop, value)} :
    /\ Commit(flowLang, active, currentIndex, ans2, flowLoading, TRUE, timer)
    /\ history' = Edited(cur, q, ans2)

\* An input event of QuestionRenderer on the current question.
ValueInput ==
  /\ UserEvent
  /\ ~crashed
  /\ \E cur \in {Current} :
       /\ cur.hasA
       /\ \E q \in {formContent(active).questions[cur.originalIndex]} :
            \E v \in FlowInputValues(q) :
              /\ v # flowAnswers[cur.originalIndex].value
              /\ setAnswerProperty(cur, q, "value", v)
  /\ UNCHANGED <<appVars, probe, worker, inflight, issued>>

\* The buttons [1..6] and [1..4]; a session presses the two ends of each row.
RatingButtons == {1, 6}

LengthButtons == {1, 4}

\* A rating or length button; the row is there for a star or book question.
RatingInput ==
  /\ UserEvent
  /\ ~crashed
  /\ \E cur \in {Current} :
       /\ cur.hasA
       /\ \E q \in {formContent(active).questions[cur.originalIndex]} :
            /\ q.starEnabled \/ q.bookEnabled
            /\ \E n \in RatingButtons :
                 /\ n # flowAnswers[cur.originalIndex].rating
                 /\ setAnswerProperty(cur, q, "rating", n)
  /\ UNCHANGED <<appVars, probe, worker, inflight, issued>>

LengthInput ==
  /\ UserEvent
  /\ ~crashed
  /\ \E cur \in {Current} :
       /\ cur.hasA
       /\ \E q \in {formContent(active).questions[cur.originalIndex]} :
            /\ q.starEnabled \/ q.bookEnabled
            /\ \E n \in LengthButtons :
                 /\ n # flowAnswers[cur.originalIndex].length
                 /\ setAnswerProperty(cur, q, "length", n)
  /\ UNCHANGED <<appVars, probe, worker, inflight, issued>>

\* Time passes on a pending timer; a due timer runs before more time passes.
\* (With no timer pending the passing of time changes nothing.)
Tick ==
  /\ ~crashed
  /\ timer.set
  /\ now < DebounceMs
  /\ now' = now + TickMs
  /\ UNCHANGED <<appVars, probe, worker, flowLang, active, currentIndex, flowAnswers,
                 flowLoading, storage, timer, inflight, crashed, issued, history,
                 events>>

\* The timer callback up to its await: setLoading(true), the guidance of the
\* closed-over question cleared, the request sent with the closed-over prompt.
TimerFires ==
  /\ ~crashed
  /\ timer.set
  /\ now = DebounceMs
  /\ \E ans2 \in {setProp(flowAnswers, timer.originalIndex, "aiResponse",
                          NoResponse)} :
       Commit(flowLang, active, currentIndex, ans2, TRUE, TRUE, NoTimer)
  /\ inflight' = inflight \cup
       {[id |-> issued + 1, originalIndex |-> timer.originalIndex,
         lang |-> timer.lang, prompt |-> timer.prompt]}
  /\ issued' = issued + 1
  /\ history' = [history EXCEPT !.issued = @ + 1, !.sent = timer.prompt]
  /\ UNCHANGED <<appVars, probe, worker, events>>

\* How a request ends: text that parses, text that does not, no text, a
\* network or HTTP failure.
RequestOutcomes == {"parsed", "fallback", "no_response", "error"}

\* The rest of the timer callback: the guidance stored at the closed-over
\* index, then finally setLoading(false).
RequestSettles(r, outcome) ==
  /\ r \in inflight
  /\ inflight' = inflight \ {r}
  /\ IF crashed
       THEN UNCHANGED <<flowLang, active, currentIndex, flowAnswers, flowLoading,
                        storage, timer, now, crashed>>
       ELSE \E ans2 \in {setProp(flowAnswers, r.originalIndex, "aiResponse",
                                  AiResponse(outcome, r.lang, r.prompt))} :
              Commit(flowLang, active, currentIndex, ans2, FALSE, TRUE, timer)
  /\ UNCHANGED <<appVars, probe, worker, issued, history, events>>

\* The page is loaded again: everything but localStorage starts over, and the
\* requests of the old page are never answered.
Reload ==
  /\ UserEvent
  /\ flowLang' = "fa"
  /\ active' = FirstModule
  /\ currentIndex' = 0
  /\ flowLoading' = FALSE
  /\ \E s0 \in {Mounted(storage)} :
       /\ flowAnswers' = s0.answers
       /\ storage' = s0.storage
       /\ timer' = s0.timer
  /\ now' = 0
  /\ crashed' = FALSE
  /\ inflight' = {}
  /\ history' = [NoHistory EXCEPT !.event = "reload"]
  /\ UNCHANGED <<appVars, probe, worker, issued>>

\* FormFlow is not the mounted entry.
InitFlowIdle ==
  /\ flowLang = "fa"
  /\ active = "pip"
  /\ currentIndex = 0
  /\ flowAnswers = << >>
  /\ flowLoading = FALSE
  /\ storage = [m \in ModuleIds |-> NoBlob]
  /\ timer = NoTimer
  /\ inflight = {}
  /\ crashed = FALSE
  /\ now = 0
  /\ issued = 0
  /\ history = NoHistory

(***************************************************************************)
(* The two visibility resolvers on drawn inputs: a question of a module    *)
(* with a `when` of its own, and an answer state of that module.           *)
(***************************************************************************)
\* The module the probes are put in, the question a predicate names, and a
\* key that names no question of the module.
ProbeModule == "hmrc_forms"

ProbeKey == "hmrc_flow"

UnknownKey == "no_such_question"

\* `when` is { [key: string]: string }.
ProbeWhenValues == {"self_assessment", "1", "undefined"}

\* absent: no `when`; empty: `when: {}`; else { key: val }.
ProbeWhens ==
  {[kind |-> k, key |-> ProbeKey, val |-> ""] : k \in {"absent", "empty"}}
    \cup {[kind |-> "pair", key |-> k, val |-> v] :
            k \in {ProbeKey, UnknownKey}, v \in ProbeWhenValues}

\* What the store can hold for the named question: text and option values,
\* a number (a number or currency input, a saved list), the list of a
\* multi-select.
ProbeAnswers ==
  {Str("self_assessment"), Str("child_tax_credit"), Str("1"), Num(1),
   Arr(<< Str("self_assessment") >>), Arr(<< >>)}

\* The probed question: the second question of the module, under the drawn `when`.
ProbeQuestion(w) ==
  [Question("sa_utr", "short-text", NoOptions,
            IF w.kind = "pair" THEN << <<w.key, w.val>> >> ELSE NoWhen,
            TRUE, FALSE, FALSE)
     EXCEPT !.hasWhen = (w.kind # "absent")]

\* App's answers object: a key for each question answered.
ProbeStore(p) ==
  LET one == IF p.answered THEN Put(EmptyObj, ProbeKey, p.value) ELSE EmptyObj
  IN IF p.other THEN Put(one, "sa_utr", Str("a")) ELSE one

\* FormFlow's records: one for each question of the module, a default value
\* where nothing was entered.
ProbeRecords(p) ==
  LET def == makeDefault(ProbeModule)
  IN [i \in 1..Len(def) |->
        IF def[i].questionId = ProbeKey /\ p.answered
          THEN [def[i] EXCEPT !.value = p.value]
        ELSE IF def[i].questionId = "sa_utr" /\ p.other
          THEN [def[i] EXCEPT !.value = Str("a")]
        ELSE def[i]]

\* No visibility question is put.
NoProbe ==
  [asked |-> FALSE, done |-> TRUE, when |-> [kind |-> "absent", key |-> "", val |-> ""],
   answered |-> FALSE, value |-> Undef, other |-> FALSE,
   byWhen |-> FALSE, inFlow |-> "visible"]

InitProbe ==
  \E w \in ProbeWhens : \E ans \in BOOLEAN : \E v \in ProbeAnswers :
    \E o \in BOOLEAN :
      /\ ~ans => v = Str("1")
      /\ probe = [asked |-> TRUE, done |-> FALSE, when |-> w, answered |-> ans,
                  value |-> IF ans THEN v ELSE Undef, other |-> o,
                  byWhen |-> FALSE, inFlow |-> "visible"]

\* Both resolvers are applied to the probe.
Resolve ==
  /\ probe.asked /\ ~probe.done
  /\ probe' = [probe EXCEPT
                 !.done = TRUE,
                 !.byWhen = visibleByWhen(ProbeQuestion(probe.when),
                                          ProbeStore(probe)),
                 !.inFlow = FlowVisible(ProbeQuestion(probe.when),
                                        ProbeRecords(probe))]
  /\ UNCHANGED <<appVars, flowVars, worker, events>>

InitResolve == InitAppIdle /\ InitFlowIdle /\ InitProbe /\ events = 0 /\ worker = NoWorker

SpecResolve == InitResolve /\ [][Resolve]_vars

(***************************************************************************)
(* A session of FormFlow in which the user picks a module card (or stays   *)
(* on the first module) and then edits the question shown.                 *)
(***************************************************************************)
\* Edits of one such session.
MaxEdits == 3

InitEdit ==
  \E m \in ModuleIds :
    \E s0 \in {Mounted([x \in ModuleIds |-> NoBlob])} :
    \E old \in {Deps("fa", FirstModule, 0, s0.answers, FALSE)} :
    \E s1 \in {IF m = FirstModule THEN s0
                ELSE AfterRender(FALSE, old, FirstModule, "fa", m, 0,
                                 s0.answers, FALSE, FALSE, s0.storage,
                                 s0.timer, 0)} :
       /\ flowLang = "fa"
       /\ active = m
       /\ currentIndex = 0
       /\ flowLoading = FALSE
       /\ flowAnswers = s1.answers
       /\ storage = s1.storage
       /\ timer = s1.timer
       /\ now = s1.now
       /\ crashed = s1.crashed
       /\ inflight = {}
       /\ issued = 0
       /\ history = NoHistory
       /\ events = MaxEdits

NextEdit ==
  \/ ValueInput
  \/ RatingInput
  \/ LengthInput
  \/ Tick
  \/ TimerFires
  \/ \E r \in inflight : \E o \in RequestOutcomes : RequestSettles(r, o)

InitEditSession == InitEdit /\ InitAppIdle /\ probe = NoProbe /\ worker = NoWorker

SpecEdit == InitEditSession /\ [][NextEdit]_vars

NextApp ==
  \/ \E l \in Langs : SetLang(l)
  \/ \E m \in ModuleIds : SetModuleKey(m)
  \/ hardReset
  \/ AnswerInput
  \/ FileInput
  \/ StarsInput
  \/ BooksInput
  \/ onBuildReview
  \/ \E out \in BackendOutcomes : BackendStep(out)
  \/ \E out \in GeminiOutcomes : GeminiStep(out)

InitAppSession == InitApp /\ InitFlowIdle /\ probe = NoProbe /\ worker = NoWorker

SpecApp == InitAppSession /\ [][NextApp]_vars

NextFlow ==
  \/ \E l \in Langs : FlowSetLang(l)
  \/ \E m \in ModuleIds : setActive(m)
  \/ Previous
  \/ NextQuestion
  \/ ValueInput
  \/ RatingInput
  \/ LengthInput
  \/ Tick
  \/ TimerFires
  \/ \E r \in inflight : \E o \in RequestOutcomes : RequestSettles(r, o)
  \/ Reload

InitFlowSession == InitFlow /\ InitAppIdle /\ probe = NoProbe /\ worker = NoWorker

SpecFlow == InitFlowSession /\ [][NextFlow]_vars

(***************************************************************************)
(* Properties.                                                             *)
(***************************************************************************)
\* C1: after every module switch and every locale switch the answer store
\* holds the defaults of the newly active module and nothing entered before.
\* (FormFlow, under SpecFlow.)
C1_StoreResetOnSwitch ==
  [][(events' # events /\ history'.event = "switch" /\ ~crashed')
       => flowAnswers' = makeDefault(active')]_vars

\* The string form a predicate value is compared in.
ProbeExpected ==
  /\ probe.when.key = ProbeKey
  /\ probe.answered
  /\ JsString(probe.value) = JsString(Str(probe.when.val))

\* C2: a question with predicate {k: v} is visible if and only if k has an
\* answer whose string form equals the string form of v; it is hidden, with
\* no error, when k has no answer or names no question.  (Both resolvers.)
C2_VisibleIffStringEqual ==
  (probe.done /\ probe.when.kind = "pair")
    => /\ probe.byWhen = ProbeExpected
       /\ probe.inFlow = (IF ProbeExpected THEN "visible" ELSE "hidden")

\* C3: a question without a visibility predicate is visible whatever the
\* answers are.  (Both resolvers.)
C3_NoPredicateVisible ==
  (probe.done /\ probe.when.kind = "absent")
    => (probe.byWhen /\ probe.inFlow = "visible")

C3_Witness ==
  /\ probe.done
  /\ probe.when.kind = "absent"
  /\ probe.answered
  /\ probe.other
  /\ probe.byWhen
  /\ probe.inFlow = "visible"

\* After a run of three rapid edits: no request yet and a timer pending for
\* the state the third edit left, or one request and that one for that state.
OneRequestFromLastEdit ==
  /\ history.issued = 0 => (timer.set /\ timer.prompt = history.after)
  /\ history.issued > 0 => (history.issued = 1 /\ history.sent = history.after)

\* C4 as stated: three rapid edits to one question give exactly one request,
\* after the input settles, built from the state after the third edit.
C4_ThreeEditsOneRequest ==
  (history.event = "edit" /\ history.edits = 3) => OneRequestFromLastEdit

\* C4: three rapid edits to one question give exactly one request, built from
\* the state after the third edit, when that state is one the generation
\* effect does not skip; when it skips it, they give none and no timer pends.
C4_ThreeEditsOneRequestUnlessSkipped ==
  (history.event = "edit" /\ history.edits = 3)
    => IF history.skip
         THEN ~timer.set /\ history.issued = 0
         ELSE OneRequestFromLastEdit

C4_Witness ==
  /\ history.event = "edit"
  /\ history.edits = 3
  /\ ~history.skip
  /\ history.issued = 1
  /\ history.sent = history.after
  /\ ~timer.set

\* The input of request r has been superseded: another question or locale is
\* shown, or the answer record of its question no longer gives its prompt.
Superseded(r) ==
  \E cur \in {Current} :
    \/ ~cur.hasA
    \/ cur.originalIndex # r.originalIndex
    \/ flowLang # r.lang
    \/ generatePrompt(active, flowLang,
                      formContent(active).questions[cur.originalIndex].id,
                      flowAnswers[cur.originalIndex]) # r.prompt

\* C5: the response to a superseded request is discarded: the step that
\* settles it leaves the stored guidance of its question as it was.
C5_StaleResponseDiscarded ==
  [][\A r \in inflight :
       (r \notin inflight' /\ events' = events /\ ~crashed /\ Superseded(r))
         => flowAnswers'[r.originalIndex].aiResponse
              = flowAnswers[r.originalIndex].aiResponse]_vars

\* The fields of FormCheckerResponse and the metrics of its scores.
ReviewFields ==
  {"language", "form_type", "overall_stars", "scores", "translation_summary",
   "key_findings", "missing_evidence", "improvements", "per_question_scores",
   "next_steps_fa", "next_steps_en", "next_steps_uk",
   "disclaimer_fa", "disclaimer_en", "disclaimer_uk"}

ScoreMetrics ==
  {"completeness", "consistency", "evidence_linkage", "relevance",
   "tone_clarity", "risk_flags"}

Present(o, k) == Has(o, k) /\ Get(o, k).t \notin {"undefined", "null"}

\* Every field present and non-null, the overall stars in 1..6, the six
\* metrics present and non-null.
Complete(rv) ==
  /\ \A k \in ReviewFields : Present(rv.o, k)
  /\ Get(rv.o, "overall_stars").t = "number"
  /\ Get(rv.o, "overall_stars").n \in 1..6
  /\ Get(rv.o, "scores").t = "object"
  /\ \A k \in ScoreMetrics : Present(Get(rv.o, "scores").o, k)

\* C6: every review record handed to the UI or the exporter is complete,
\* whatever the external response contained.
C6_ReviewAlwaysComplete == review # Null => Complete(review)

\* The default review of the build that installed the review.
BuiltDefault == safeDefaultReview(built.lang, built.moduleKey, built.answers)

\* C7: in a merged review every top-level field of the response wins and every
\* other field keeps its default; a response of only overall_stars 5 gives
\* overall_stars 5 and the default everywhere else.
C7_MergeTopLevel ==
  (review # Null /\ built.path = "merged")
    => /\ \A k \in KeySet(BuiltDefault) \cup KeySet(SpreadEntries(built.data)) :
            Get(review.o, k) =
              IF Has(SpreadEntries(built.data), k)
                THEN Get(SpreadEntries(built.data), k)
                ELSE Get(BuiltDefault, k)
       /\ built.data = Obj(<< Entry("overall_stars", Num(5)) >>)
            => /\ Get(review.o, "overall_stars") = Num(5)
               /\ \A k \in KeySet(BuiltDefault) \ {"overall_stars"} :
                    Get(review.o, k) = Get(BuiltDefault, k)
               /\ KeySet(review.o) = KeySet(BuiltDefault)

C7_Witness ==
  /\ review # Null
  /\ built.path = "merged"
  /\ built.data = Obj(<< Entry("overall_stars", Num(5)) >>)
  /\ Len(built.answers) > 0
  /\ Get(review.o, "overall_stars") = Num(5)

\* C8: the merge is shallow: a scores object in the response replaces the
\* default scores whole, so a metric it leaves out is absent from the result.
C8_MergeShallow ==
  (/\ review # Null
   /\ built.path = "merged"
   /\ built.data.t = "object"
   /\ Get(built.data.o, "scores").t = "object")
    => /\ Get(review.o, "scores") = Get(built.data.o, "scores")
       /\ \A k \in ScoreMetrics :
            Has(Get(review.o, "scores").o, k)
              = Has(Get(built.data.o, "scores").o, k)

C8_Witness ==
  /\ review # Null
  /\ built.path = "merged"
  /\ built.data = Obj(<< Entry("scores", Obj(<< Entry("completeness", Num(5)) >>)) >>)
  /\ Has(Get(review.o, "scores").o, "completeness")
  /\ ~Has(Get(review.o, "scores").o, "consistency")

RECURSIVE Populated(_)
\* No undefined or null leaf, in any list or mapping of the value.
Populated(v) ==
  /\ v.t \notin {"undefined", "null"}
  /\ v.t = "array" => \A i \in 1..Len(v.a) : Populated(v.a[i])
  /\ v.t = "object" => \A i \in 1..Len(v.o) : Populated(v.o[i].v)

\* C9: with no external response the review is the default record, every
\* field of it populated, and it is the record the module, locale and answers
\* of the build alone determine.
C9_DefaultPopulatedAndStable ==
  (review # Null /\ built.path = "default")
    => /\ review = Obj(BuiltDefault)
       /\ Complete(review)
       /\ Populated(review)

C9_Witness ==
  /\ review # Null
  /\ built.path = "default"
  /\ Len(built.answers) > 0
  /\ built.lang # "fa"
  /\ Populated(review)

\* C10: a build ends with a review; when a response did not parse the review
\* is the unchanged default and the soft warning is set.
C10_UnparsedResponseWarns ==
  (~loading /\ review # Null /\ built.path = "default" /\ built.unparsed)
    => /\ review = Obj(BuiltDefault)
       /\ error = GeminiFailedMessage

SavedEntry(id, r, l, v) ==
  Obj(<< Entry("questionId", Str(id)), Entry("rating", Num(r)),
         Entry("length", Num(l)), Entry("value", v) >>)

\* The entries a drawn list is made of: complete entries for the first and
\* the last question of the module, a second one for the first question, one
\* for a question of no module, one with the identifier alone, and two that
\* are no objects.
LoadEntries(m) ==
  LET def == makeDefault(m)
      first == def[1].questionId
      last == def[Len(def)].questionId
  IN {SavedEntry(first, 3, 2, Str("a")), SavedEntry(last, 6, 4, Str("b")),
      SavedEntry(first, 2, 3, Str("z")),
      SavedEntry("no_such_question", 2, 2, Str("c")),
      Obj(<< Entry("questionId", Str(first)) >>), Null, Num(5)}

\* Entries of a drawn list.
MaxBlobEntries == 2

RECURSIVE ListsOf(_, _)
\* The sequences of at most n elements of S.
ListsOf(S, n) ==
  IF n = 0 THEN {<< >>}
  ELSE LET shorter == ListsOf(S, n - 1)
       IN shorter \cup {Append(s, e) : s \in shorter, e \in S}

\* The items drawn: none, the empty string, text that is no JSON, JSON that
\* is no list, and the lists.
LoadBlobs(m) ==
  {RawBlob("none", Null), RawBlob("empty", Null), RawBlob("text", Null)}
    \cup {RawBlob("json", v) :
            v \in {Null, Num(1), Str("a"), Obj(<< Entry("a", Num(1)) >>)}}
    \cup {RawBlob("json", Arr(es)) : es \in ListsOf(LoadEntries(m), MaxBlobEntries)}

InitLoad ==
  \E m \in ModuleIds : \E raw \in LoadBlobs(m) :
    probe = [asked |-> TRUE, done |-> FALSE, module |-> m, raw |-> raw,
             records |-> << >>]

\* FormFlow mounts on the drawn item.
Load ==
  /\ probe.asked /\ ~probe.done
  /\ probe' = [probe EXCEPT !.done = TRUE,
                            !.records = LoadRecords(probe.module, probe.raw)]
  /\ UNCHANGED <<appVars, flowVars, worker, events>>

InitLoadSession == InitAppIdle /\ InitFlowIdle /\ InitLoad /\ events = 0 /\ worker = NoWorker

SpecLoad == InitLoadSession /\ [][Load]_vars

\* The defaults of the module, as loaded records.
LoadDefaults(m) ==
  LET def == makeDefault(m)
  IN [i \in 1..Len(def) |->
        [questionId |-> def[i].questionId, rating |-> Num(def[i].rating),
         length |-> Num(def[i].length), value |-> def[i].value,
         aiResponse |-> NoResponse]]

\* A complete saved entry: an object with a text identifier, a numeric
\* rating and length, and a value.
CompleteEntry(e) ==
  /\ e.t = "object"
  /\ Property(e, "questionId").t = "string"
  /\ Property(e, "rating").t = "number"
  /\ Property(e, "length").t = "number"
  /\ Property(e, "value").t # "undefined"

\* A readable, rightly shaped item: a list of complete entries.
WellShaped(raw) ==
  /\ raw.kind = "json"
  /\ raw.data.t = "array"
  /\ \A j \in 1..Len(raw.data.a) : CompleteEntry(raw.data.a[j])

\* C12: loading yields one record per question of the module, in module
\* order; a question whose id occurs in the item takes the item's value,
\* rating and length, a question missing from it keeps the defaults, entries
\* of other ids are ignored; an absent, unreadable or wrongly shaped item
\* yields all defaults.
C12_LoadReconciles ==
  probe.done =>
    LET def == LoadDefaults(probe.module)
        es == probe.raw.data.a
        Found(i) == {j \in 1..Len(es) :
                       Property(es[j], "questionId") = Str(def[i].questionId)}
    IN /\ Len(probe.records) = Len(def)
       /\ \A i \in 1..Len(def) : probe.records[i].questionId = def[i].questionId
       /\ ~WellShaped(probe.raw) => probe.records = def
       /\ WellShaped(probe.raw) =>
            \A i \in 1..Len(def) :
              IF Found(i) = {} THEN probe.records[i] = def[i]
              ELSE \E j \in Found(i) :
                     /\ probe.records[i].rating = Property(es[j], "rating")
                     /\ probe.records[i].length = Property(es[j], "length")
                     /\ probe.records[i].value = Property(es[j], "value")

\* C13: in every reachable state each answer's rating is an integer in 0..6
\* and its length an integer in 1..4: the stars and books the App keeps per
\* question, and the rating and length of FormFlow's records.
C13_RatingAndLengthInRange ==
  /\ \A i \in 1..Len(stars) : stars[i].v.t = "number" /\ stars[i].v.n \in 0..6
  /\ \A i \in 1..Len(books) : books[i].v.t = "number" /\ books[i].v.n \in 1..4
  /\ \A i \in 1..Len(flowAnswers) :
       flowAnswers[i].rating \in 0..6 /\ flowAnswers[i].length \in 1..4

(***************************************************************************)
(* App: the structured export, on drawn stores.                            *)
(***************************************************************************)
\* JSON text, as the tree of its grammar: null, a string literal, a number
\* literal (its digits), a list of texts, an object of keyed texts.
JsonText(kind, lit, items, members) ==
  [j |-> kind, lit |-> lit, items |-> items, members |-> members]

JsonNull == JsonText("null", "", << >>, << >>)

\* Whether JSON.stringify writes the property of an object that holds v:
\* a property holding undefined is left out.
JsonMemberIfTruthy(v) == ~Falsy(v)

JsonMember(v) == v.t # "undefined"

RECURSIVE JsonStringify(_)
\* JSON.stringify(v): undefined in a list is written as null, a File (no own
\* enumerable property) as {}.
JsonStringify(v) ==
  CASE v.t \in {"undefined", "null"} -> JsonNull
    [] v.t = "string" -> JsonText("string", v.s, << >>, << >>)
    [] v.t = "number" -> JsonText("number", ToString(v.n), << >>, << >>)
    [] v.t = "array" ->
         JsonText("array", "", [i \in 1..Len(v.a) |-> JsonStringify(v.a[i])], << >>)
    [] v.t = "object" ->
         LET kept == SelectSeq(v.o, LAMBDA e : JsonMember(e.v))
         IN JsonText("object", "", << >>,
                     [i \in 1..Len(kept) |->
                        [k |-> kept[i].k, v |-> JsonStringify(kept[i].v)]])
    [] OTHER -> JsonText("object", "", << >>, << >>)

\* The numbers a number literal of the drawn stores can spell.
JsonNumbers == 0..9

RECURSIVE JsonParse(_)
\* JSON.parse of a text.
JsonParse(t) ==
  CASE t.j = "null" -> Null
    [] t.j = "string" -> Str(t.lit)
    [] t.j = "number" -> Num(CHOOSE n \in JsonNumbers : ToString(n) = t.lit)
    [] t.j = "array" -> Arr([i \in 1..Len(t.items) |-> JsonParse(t.items[i])])
    [] OTHER ->
         Obj([i \in 1..Len(t.members) |->
                Entry(t.members[i].k, JsonParse(t.members[i].v))])

\* v?.name || null
FileNameOrNull(v) ==
  IF v.t = "file" /\ v.s # "" THEN Str(v.s) ELSE Null

\* Object.fromEntries(Object.entries(o).map(([k, v]) => [k, v?.name || null]))
FileNames(o) == [i \in 1..Len(o) |-> Entry(o[i].k, FileNameOrNull(o[i].v))]

\* The text exportJSON hands to downloadBlob.
exportJSON ==
  JsonStringify(Obj(<< Entry("language", Str(lang)),
                       Entry("module", Str(moduleKey)),
                       Entry("answers", Obj(answers)),
                       Entry("files", Obj(FileNames(files))),
                       Entry("proofs", Obj(FileNames(proofs))),
                       Entry("stars", Obj(stars)),
                       Entry("books", Obj(books)),
                       Entry("review", review) >>))

\* The modules the drawn stores belong to, and of each the two questions
\* answered: pip (two long texts with proofs), uc (a select and the currency
\* amount), dvla_forms (a select and the photo file).
ExportModules == {"pip", "uc", "dvla_forms"}

ExportFirst(m) ==
  CASE m = "pip" -> [id |-> "preparing_food", values |-> {Str(""), Str("a")}]
    [] m = "uc" -> [id |-> "claim_type", values |-> {Str("new"), Str("manage")}]
    [] OTHER -> [id |-> "application_type",
                 values |-> {Str("new_provisional"), Str("renewal")}]

ExportSecond(m) ==
  CASE m = "pip" -> [id |-> "eating_drinking", values |-> {Str(""), Str("ab")}]
    [] m = "uc" -> [id |-> "savings", values |-> {Num(0), Num(5)}]
    [] OTHER -> [id |-> "photo", values |-> {}]

\* A store after the inputs named: nothing entered (undefined) leaves no key.
StoreAfter(ids, vals) ==
  LET one == IF vals[1].t = "undefined" THEN EmptyObj
             ELSE Put(EmptyObj, ids[1], vals[1])
  IN IF vals[2].t = "undefined" THEN one ELSE Put(one, ids[2], vals[2])

\* No download was made.
NoExport == [asked |-> TRUE, done |-> FALSE, text |-> JsonNull]

\* The App after the user answered some of the two questions in either
\* order, picked or cleared the photo and a proof, and moved the sliders.
InitExport ==
  \E m \in ExportModules :
    \E v1 \in ExportFirst(m).values \cup {Undef} :
      \E v2 \in ExportSecond(m).values \cup {Undef} :
        \E f \in FileInputs \cup {Undef} : \E p \in FileInputs \cup {Undef} :
          \E s \in {Undef, Num(SliderMax)} : \E swap \in BOOLEAN :
            /\ f.t # "undefined" => m = "dvla_forms"
            /\ s.t # "undefined" => m = "pip"
            /\ swap => (v1.t # "undefined" /\ v2.t # "undefined")
            /\ apiUrl = FALSE /\ geminiKey = FALSE
            /\ review = Null /\ loading = FALSE /\ error = Null
            /\ build = NoBuild /\ built = NoBuilt
            /\ lang = "en"
            /\ moduleKey = m
            /\ answers = IF swap
                 THEN StoreAfter(<<ExportSecond(m).id, ExportFirst(m).id>>, <<v2, v1>>)
                 ELSE StoreAfter(<<ExportFirst(m).id, ExportSecond(m).id>>, <<v1, v2>>)
            /\ files = StoreAfter(<<ExportSecond(m).id, "">>, <<f, Undef>>)
            /\ proofs = StoreAfter(<<ExportSecond(m).id, "">>, <<p, Undef>>)
            /\ stars = StoreAfter(<<ExportFirst(m).id, "">>, <<s, Undef>>)
            /\ books = StoreAfter(<<ExportFirst(m).id, "">>, <<s, Undef>>)
            /\ probe = NoExport

\* The user clicks the export button: the text is handed to the download.
ExportClick ==
  /\ probe.asked /\ ~probe.done
  /\ probe' = [probe EXCEPT !.done = TRUE, !.text = exportJSON]
  /\ UNCHANGED <<appVars, flowVars, worker, events>>

InitExportSession == InitExport /\ InitFlowIdle /\ events = 0 /\ worker = NoWorker

SpecExport == InitExportSession /\ [][ExportClick]_vars

\* C14: parsing the exported text gives back the answer store's mapping of
\* question id to value, and files and proofs appear in it by name or null.
C14_ExportRoundTrip ==
  probe.done =>
    \E data \in {JsonParse(probe.text)} :
      /\ data.t = "object"
      /\ \E back \in {Get(data.o, "answers")} :
           /\ back.t = "object"
           /\ KeySet(back.o) = KeySet(answers)
           /\ \A k \in KeySet(answers) : Get(back.o, k) = Get(answers, k)
      /\ \A part \in {"files", "proofs"} :
           \E names \in {Get(data.o, part)} :
             \E held \in {IF part = "files" THEN files ELSE proofs} :
               /\ names.t = "object"
               /\ KeySet(names.o) = KeySet(held)
               /\ \A k \in KeySet(held) :
                    Get(names.o, k) =
                      (IF Get(held, k).t = "file" THEN Str(Get(held, k).s) ELSE Null)

C14_Witness ==
  /\ probe.done
  /\ moduleKey = "uc"
  /\ Get(answers, "savings") = Num(5)
  /\ Get(answers, "claim_type") = Str("new")
  /\ Get(proofs, "savings") = File("letter.pdf")
  /\ Get(Get(JsonParse(probe.text).o, "answers").o, "savings") = Num(5)

\* C15: a generation request that settles, however it ends, leaves guidance
\* of the kind of its outcome (parsed, fallback, 'no response', error
\* placeholder) on its question, worded for the active locale, with the
\* loading flag cleared and FormFlow still rendering.
C15_GenerationRecovered ==
  [][\A r \in inflight :
       (r \notin inflight' /\ events' = events /\ ~crashed)
         => /\ ~crashed'
            /\ flowLoading' = FALSE
            /\ flowAnswers'[r.originalIndex].aiResponse.kind \in RequestOutcomes
            /\ flowAnswers'[r.originalIndex].aiResponse.lang = flowLang']_vars

(***************************************************************************)
(* FormFlow: generatePrompt on drawn modules, locales and answer records.  *)
(***************************************************************************)
\* The module ids of the content type (ModuleId).
PromptModules == {"pip"} \cup GenericModules

\* The answer records drawn: both ends of the rating and length buttons, a
\* text and no text.
PromptAnswers ==
  {[questionId |-> "q", rating |-> r, length |-> n, value |-> v,
    aiResponse |-> NoResponse] :
     r \in RatingButtons, n \in LengthButtons, v \in {Str(""), Str("a")}}

InitPrompt ==
  \E m \in PromptModules : \E l \in Langs : \E a \in PromptAnswers :
    probe = [asked |-> TRUE, done |-> FALSE, module |-> m, lang |-> l,
             answer |-> a, prompt |-> NoPrompt]

\* The timer callback builds the request text.
BuildPrompt ==
  /\ probe.asked /\ ~probe.done
  /\ probe' = [probe EXCEPT
                 !.done = TRUE,
                 !.prompt = generatePrompt(probe.module, probe.lang,
                                           probe.answer.questionId, probe.answer)]
  /\ UNCHANGED <<appVars, flowVars, worker, events>>

InitPromptSession == InitAppIdle /\ InitFlowIdle /\ InitPrompt /\ events = 0 /\ worker = NoWorker

SpecPrompt == InitPromptSession /\ [][BuildPrompt]_vars

\* C16: the template is chosen by the module id alone and worded for the
\* locale: pip gets the PIP template with the impact and length lines, each
\* of the nine other modules the generic template without them, and the
\* prompt asks for the keys answer_<lang> and explanation_<lang> of the
\* locale.
C16_TemplateByModuleAndLocale ==
  probe.done =>
    /\ probe.prompt.lang = probe.lang
    /\ probe.prompt.keys = <<"answer_" \o probe.lang, "explanation_" \o probe.lang>>
    /\ probe.module = "pip" =>
         /\ probe.prompt.template = "pip"
         /\ probe.prompt.impact = probe.answer.rating
         /\ probe.prompt.length = probe.answer.length
    /\ probe.module \in {"uc", "immigration", "carers_allowance", "nhs_forms",
                         "student_finance", "council_tax", "blue_badge",
                         "dvla_forms", "hmrc_forms"} =>
         /\ probe.prompt.template = "multi"
         /\ probe.prompt.impact = 0
         /\ probe.prompt.length = 0

C16_Witness ==
  /\ probe.done
  /\ probe.module = "student_finance"
  /\ probe.lang = "uk"
  /\ probe.answer.rating = 6
  /\ probe.prompt.template = "multi"
  /\ probe.prompt.keys = <<"answer_uk", "explanation_uk">>

(***************************************************************************)
(* Group questions: what both entries draw for a group and its children,   *)
(* on a drawn group of the content type.                                   *)
(***************************************************************************)
RECURSIVE renderQuestion(_, _)
\* App.renderQuestion: the ids of the questions drawn for q.  Nothing is
\* drawn for a question visibleByWhen rejects; a group draws its children
\* through renderQuestion itself.
renderQuestion(q, ans) ==
  IF ~visibleByWhen(q, ans) THEN {}
  ELSE {q.id} \cup
       (IF q.type = "group"
          THEN UNION {renderQuestion(q.children[i], ans) : i \in 1..Len(q.children)}
          ELSE {})

\* QuestionRenderer of FormFlow: the ids of the inputs drawn for the question
\* shown; for a group one text or number input per child, for a file
\* question none.
QuestionRenderer(q) ==
  IF q.type = "group" THEN {q.id} \cup {q.children[i].id : i \in 1..Len(q.children)}
  ELSE {q.id}

\* The child of the drawn group, under the drawn `when`.
GroupChild(w) ==
  [Question("amount", "currency", NoOptions,
            IF w.kind = "pair" THEN << <<w.key, w.val>> >> ELSE NoWhen,
            FALSE, FALSE, FALSE)
     EXCEPT !.hasWhen = (w.kind # "absent")]

\* The drawn group: its own `when` and its one child.
GroupQuestion(w, cw) ==
  [Question("details", "group", NoOptions,
            IF w.kind = "pair" THEN << <<w.key, w.val>> >> ELSE NoWhen,
            FALSE, FALSE, FALSE)
     EXCEPT !.hasWhen = (w.kind # "absent"),
            !.children = << GroupChild(cw) >>]

\* The questions of the module the group is put in: the first question of
\* hmrc_forms, then the group.
GroupModule(w, cw) ==
  << formContent(ProbeModule).questions[1], GroupQuestion(w, cw) >>

\* The group's predicate is one that does not throw in FormFlow's filter.
InitGroup ==
  \E w \in ProbeWhens : \E cw \in ProbeWhens :
    \E ans \in BOOLEAN : \E v \in ProbeAnswers :
      /\ w.kind # "empty"
      /\ ~ans => v = Str("1")
      /\ probe = [asked |-> TRUE, done |-> FALSE, when |-> w, childWhen |-> cw,
                  answered |-> ans, value |-> IF ans THEN v ELSE Undef,
                  other |-> FALSE, topApp |-> {}, shownApp |-> {},
                  topFlow |-> {}, shownFlow |-> {}]

\* Both entries render the module: App maps renderQuestion over the
\* questions; FormFlow filters them and shows one of those left.
RenderGroup ==
  /\ probe.asked /\ ~probe.done
  /\ \E qs \in {GroupModule(probe.when, probe.childWhen)} :
       \E vis \in {SelectSeq(qs, LAMBDA q :
                     FlowVisible(q, ProbeRecords(probe)) = "visible")} :
         probe' = [probe EXCEPT
           !.done = TRUE,
           !.topApp = {qs[i].id : i \in {j \in 1..Len(qs) :
                                           visibleByWhen(qs[j], ProbeStore(probe))}},
           !.shownApp = UNION {renderQuestion(qs[i], ProbeStore(probe)) :
                                 i \in 1..Len(qs)},
           !.topFlow = {vis[i].id : i \in 1..Len(vis)},
           !.shownFlow = UNION {QuestionRenderer(vis[i]) : i \in 1..Len(vis)}]
  /\ UNCHANGED <<appVars, flowVars, worker, events>>

InitGroupSession == InitAppIdle /\ InitFlowIdle /\ InitGroup /\ events = 0 /\ worker = NoWorker

SpecGroup == InitGroupSession /\ [][RenderGroup]_vars

\* C17: whenever the group is visible its child is shown, whatever predicate
\* the child carries and whatever the answers are, and the child is never a
\* member of the top-level list.
C17_GroupShowsChildren ==
  probe.done =>
    /\ "details" \in probe.topApp => "amount" \in probe.shownApp
    /\ "details" \in probe.topFlow => "amount" \in probe.shownFlow
    /\ "amount" \notin probe.topApp \cup probe.topFlow

(***************************************************************************)
(* Both visibility resolvers on a drawn `when` of one or two entries.      *)
(***************************************************************************)
\* The entries drawn: the first names hmrc_flow or no question, the second,
\* when there is one, names sa_utr.
DependFirst ==
  {<<k, v>> : k \in {ProbeKey, UnknownKey}, v \in {"self_assessment", "child_tax_credit"}}

DependSecond == {<<"sa_utr", "a">>, <<"sa_utr", "b">>}

DependWhens ==
  {<< p >> : p \in DependFirst} \cup {<< p, r >> : p \in DependFirst, r \in DependSecond}

\* What the two questions named can hold: nothing entered, or an entry.
DependAnswers ==
  [flow : {Undef, Str("self_assessment"), Str("child_tax_credit")},
   utr : {Undef, Str("a"), Str("")}]

\* The question probed: a third question of hmrc_forms under the drawn `when`.
DependQuestion(w) ==
  Question("sa_payment", "short-text", NoOptions, w, FALSE, FALSE, FALSE)

\* App's answers object after the entries.
DependStore(a) == StoreAfter(<<ProbeKey, "sa_utr">>, <<a.flow, a.utr>>)

\* FormFlow's records after the entries.
DependRecords(a) ==
  LET def == makeDefault(ProbeModule)
  IN [i \in 1..Len(def) |->
        IF def[i].questionId = ProbeKey /\ a.flow.t # "undefined"
          THEN [def[i] EXCEPT !.value = a.flow]
        ELSE IF def[i].questionId = "sa_utr" /\ a.utr.t # "undefined"
          THEN [def[i] EXCEPT !.value = a.utr]
        ELSE def[i]]

InitDepend ==
  \E w \in DependWhens : \E a \in DependAnswers :
    probe = [asked |-> TRUE, done |-> FALSE, when |-> w, entered |-> a,
             byWhen |-> FALSE, byWhenFirst |-> FALSE,
             inFlow |-> "visible", inFlowFirst |-> "visible"]

\* Both resolvers are applied to the question, and to the question with the
\* first entry of its `when` alone.
ResolveDepend ==
  /\ probe.asked /\ ~probe.done
  /\ probe' = [probe EXCEPT
       !.done = TRUE,
       !.byWhen = visibleByWhen(DependQuestion(probe.when),
                                DependStore(probe.entered)),
       !.byWhenFirst = visibleByWhen(DependQuestion(<< probe.when[1] >>),
                                     DependStore(probe.entered)),
       !.inFlow = FlowVisible(DependQuestion(probe.when),
                              DependRecords(probe.entered)),
       !.inFlowFirst = FlowVisible(DependQuestion(<< probe.when[1] >>),
                                   DependRecords(probe.entered))]
  /\ UNCHANGED <<appVars, flowVars, worker, events>>

InitDependSession == InitAppIdle /\ InitFlowIdle /\ InitDepend /\ events = 0 /\ worker = NoWorker

SpecDepend == InitDependSession /\ [][ResolveDepend]_vars

\* C18: a question's visibility depends on one dependency: what a resolver
\* answers for a `when` is what it answers for the single (question id,
\* required value) pair it evaluates, whatever further entries `when` has.
C18_SingleDependency ==
  probe.done =>
    /\ probe.byWhen = probe.byWhenFirst
    /\ probe.inFlow = probe.inFlowFirst

(***************************************************************************)
(* The service worker (src/public/sw.js): install, activate and fetch      *)
(* over the origin's CacheStorage.                                         *)
(*   worker.phase    parsed, installed, activating, activated, redundant   *)
(*   worker.caches   CacheStorage: the caches in the order of creation,    *)
(*                   each a name and its entries (url, response)           *)
(*   worker.pending  the caches.delete calls of activate not yet finished  *)
(*   worker.claimed  self.clients.claim() was called                       *)
(*   worker.puts     the cache.put calls of fetch not yet finished         *)
(*   worker.request, worker.net, worker.answer                             *)
(*                   history: the last fetch event, what the network did   *)
(*                   and what the page got                                 *)
(***************************************************************************)
CACHE_NAME == "ukpip-v2"

ASSETS ==
  {"/", "/index.html", "/manifest.json", "/icon-192x192.png", "/icon-512x512.png"}

\* A response: its status, and where its body is from (the network now, the
\* network at install, an earlier version of the site).
Response(status, body) == [status |-> status, body |-> body]

\* undefined: what caches.match resolves to when nothing matches.
NoMatch == Response(0, "")

Cache(name, entries) == [name |-> name, entries |-> entries]

\* caches.keys()
CacheKeys(cs) == {cs[i].name : i \in 1..Len(cs)}

\* caches.open(name): the cache is created, last, when there is none.
CacheOpen(cs, name) ==
  IF name \in CacheKeys(cs) THEN cs ELSE Append(cs, Cache(name, {}))

\* caches.delete(name)
CacheDelete(cs, name) == SelectSeq(cs, LAMBDA c : c.name # name)

\* cache.put / cache.addAll on the cache `name`: the entry of a url is replaced.
CacheStore(cs, name, added) ==
  [i \in 1..Len(cs) |->
     IF cs[i].name = name
       THEN Cache(name, {e \in cs[i].entries : \A n \in added : n.url # e.url}
                          \cup added)
       ELSE cs[i]]

\* caches.match(url) of a GET request: the entry of the first cache, in the
\* order of creation, that has one.
CacheMatchUrl(cs, url) ==
  LET having == {i \in 1..Len(cs) : \E e \in cs[i].entries : e.url = url}
  IN IF having = {} THEN NoMatch
     ELSE LET first == CHOOSE i \in having : \A j \in having : i <= j
          IN (CHOOSE e \in cs[first].entries : e.url = url).resp

\* caches.match(request): a request that is no GET matches nothing.
CacheMatch(cs, req) ==
  IF req.method = "GET" THEN CacheMatchUrl(cs, req.url) ELSE NoMatch

\* An activate that deletes nothing.
NoStaleCaches(keys) == {}

\* keys.filter((k) => k !== CACHE_NAME)
StaleCaches(keys) == {k \in keys : k # CACHE_NAME}

\* What the network does with a request: a status, or 0 for a failed fetch.
NetworkFailed == 0

NetworkOutcomes == {200, 404, 206, NetworkFailed}

\* The fetch events drawn: navigations to two routes, requests for a
\* precached and an uncached file and a POST, and requests to another origin.
Request(url, mode, origin, method) ==
  [url |-> url, mode |-> mode, origin |-> origin, method |-> method]

Requests ==
  {Request(u, "navigate", "same", "GET") : u \in {"/", "/form"}}
    \cup {Request(u, "no-cors", "same", "GET") : u \in {"/index.html", "/assets/app.js"}}
    \cup {Request("/assets/app.js", "cors", "same", "POST")}
    \cup {Request("/css", m, "cross", "GET") : m \in {"navigate", "no-cors"}}

NoRequest == Request("", "", "", "")

\* What the page gets: whether the worker called respondWith, the response
\* (NoMatch for none), whether the promise handed to respondWith rejected or
\* resolved to undefined (a network error for the page), and whether the
\* handler went on to cache.put the response.
Answer(intercepted, resp, failed, put) ==
  [intercepted |-> intercepted, resp |-> resp, failed |-> failed, put |-> put]

NoAnswer == Answer(FALSE, NoMatch, FALSE, FALSE)

\* A fetch handler that always goes to the network.
respondNetworkOnly(cs, req, net) ==
  IF net = NetworkFailed THEN Answer(TRUE, NoMatch, TRUE, FALSE)
  ELSE Answer(TRUE, Response(net, "network"), FALSE, FALSE)

\* The fetch handler.
respond(cs, req, net) ==
  IF req.origin # "same" THEN NoAnswer
  ELSE IF req.mode = "navigate"
    THEN IF net # NetworkFailed
           THEN Answer(TRUE, Response(net, "network"), FALSE, FALSE)
           ELSE Answer(TRUE, CacheMatchUrl(cs, "/index.html"),
                       CacheMatchUrl(cs, "/index.html") = NoMatch, FALSE)
  ELSE IF CacheMatch(cs, req) # NoMatch
    THEN Answer(TRUE, CacheMatch(cs, req), FALSE, FALSE)
  ELSE IF net = NetworkFailed THEN Answer(TRUE, NoMatch, TRUE, FALSE)
  ELSE Answer(TRUE, Response(net, "network"), FALSE, TRUE)

\* Whether cache.put(request, response) stores: it rejects for a request that
\* is no GET and for a partial (206) response.
PutAccepted(p) == p.method = "GET" /\ p.resp.status # 206

\* Fetch events of one run.
MaxFetches == 2

\* What an earlier version of the site left in CacheStorage.
OldShell == {[url |-> "/index.html", resp |-> Response(200, "old")]}

OldStorages ==
  {<< >>,
   << Cache("ukpip-v1", OldShell) >>,
   << Cache("ukpip-v1", OldShell), Cache("fonts", {}) >>,
   << Cache(CACHE_NAME, OldShell) >>,
   << Cache("ukpip-v1", OldShell), Cache(CACHE_NAME, {}) >>}

\* The script was evaluated; no event was handled.
InitWorker ==
  \E cs \in OldStorages :
    worker = [phase |-> "parsed", caches |-> cs, pending |-> {},
              claimed |-> FALSE, puts |-> {}, request |-> NoRequest,
              net |-> NetworkFailed, answer |-> NoAnswer]

\* install: the cache is opened, addAll stores every asset or (one of the
\* requests failing) none, then skipWaiting; a rejected waitUntil makes the
\* worker redundant.
Install(ok) ==
  /\ worker.phase = "parsed"
  /\ worker' = [worker EXCEPT
       !.phase = IF ok THEN "installed" ELSE "redundant",
       !.caches =
          IF ok
            THEN CacheStore(CacheOpen(worker.caches, CACHE_NAME), CACHE_NAME,
                            {[url |-> u, resp |-> Response(200, "installed")] :
                               u \in ASSETS})
            ELSE CacheOpen(worker.caches, CACHE_NAME)]
  /\ UNCHANGED <<appVars, flowVars, probe, events>>

\* activate, up to Promise.all: caches.keys() is read and a delete is started
\* for every other name.
Activate ==
  /\ worker.phase = "installed"
  /\ worker' = [worker EXCEPT
       !.phase = "activating",
       !.pending = StaleCaches(CacheKeys(worker.caches))]
  /\ UNCHANGED <<appVars, flowVars, probe, events>>

\* One caches.delete finishes.
DeleteFinishes(k) ==
  /\ worker.phase = "activating"
  /\ k \in worker.pending
  /\ worker' = [worker EXCEPT
       !.pending = @ \ {k},
       !.caches = CacheDelete(worker.caches, k)]
  /\ UNCHANGED <<appVars, flowVars, probe, events>>

\* Promise.all resolved: clients.claim(), and the activate step is complete.
ClaimClients ==
  /\ worker.phase = "activating"
  /\ worker.pending = {}
  /\ worker' = [worker EXCEPT !.phase = "activated", !.claimed = TRUE]
  /\ UNCHANGED <<appVars, flowVars, probe, events>>

\* A fetch event of a controlled page, answered; the cache.put of the handler
\* is left running.
Fetch(req, net) ==
  /\ worker.phase = "activated"
  /\ UserEvent
  /\ \E ans \in {respond(worker.caches, req, net)} :
       worker' = [worker EXCEPT
         !.request = req, !.net = net, !.answer = ans,
         !.puts = IF ans.put
                    THEN @ \cup {[url |-> req.url, method |-> req.method,
                                  resp |-> ans.resp]}
                    ELSE @]
  /\ UNCHANGED <<appVars, flowVars, probe>>

\* caches.open(CACHE_NAME).then((cache) => cache.put(event.request, clone))
\* finishes: stored, or rejected with nothing stored.
PutFinishes(p) ==
  /\ p \in worker.puts
  /\ worker' = [worker EXCEPT
       !.puts = @ \ {p},
       !.caches =
          IF PutAccepted(p)
            THEN CacheStore(CacheOpen(worker.caches, CACHE_NAME), CACHE_NAME,
                            {[url |-> p.url, resp |-> p.resp]})
            ELSE CacheOpen(worker.caches, CACHE_NAME)]
  /\ UNCHANGED <<appVars, flowVars, probe, events>>

NextWorker ==
  \/ \E ok \in BOOLEAN : Install(ok)
  \/ Activate
  \/ \E k \in CacheKeys(worker.caches) : DeleteFinishes(k)
  \/ ClaimClients
  \/ \E req \in Requests : \E net \in NetworkOutcomes : Fetch(req, net)
  \/ \E p \in worker.puts : PutFinishes(p)

InitWorkerSession ==
  InitAppIdle /\ InitFlowIdle /\ probe = NoProbe /\ InitWorker /\ events = MaxFetches

SpecWorker == InitWorkerSession /\ [][NextWorker]_vars

\* The entry of the current cache for a url, NoMatch for none.
CurrentEntry(cs, url) ==
  CacheMatchUrl(SelectSeq(cs, LAMBDA c : c.name = CACHE_NAME), url)

\* What C19 says of the step that answers a fetch event.
AnsweredByKind ==
  events' = events - 1 =>
    \E req \in {worker'.request} : \E net \in {worker'.net} :
      \E ans \in {worker'.answer} :
        /\ req.origin # "same" =>
             /\ ~ans.intercepted
             /\ worker'.caches = worker.caches
             /\ worker'.puts = worker.puts
        /\ (req.origin = "same" /\ req.mode = "navigate") =>
             /\ ans.intercepted
             /\ net # NetworkFailed => ans.resp = Response(net, "network")
             /\ net = NetworkFailed =>
                  /\ ans.resp = CacheMatchUrl(worker.caches, "/index.html")
                  /\ ans.resp # NoMatch
        /\ (req.origin = "same" /\ req.mode # "navigate") =>
             /\ ans.intercepted
             /\ CacheMatch(worker.caches, req) # NoMatch =>
                  ans.resp = CacheMatch(worker.caches, req)
             /\ (CacheMatch(worker.caches, req) = NoMatch /\ net # NetworkFailed) =>
                  /\ ans.resp = Response(net, "network")
                  /\ [url |-> req.url, method |-> req.method, resp |-> ans.resp]
                       \in worker'.puts

\* C19 (as stated): a same-origin navigation gets the network response, or
\* the cached /index.html when the fetch fails; any other same-origin request
\* gets the cached response when there is one and otherwise the network
\* response, which is then stored in the current cache; a cross-origin
\* request is not intercepted.
C19_FetchByKind ==
  [][/\ AnsweredByKind
     /\ \A p \in worker.puts :
          p \notin worker'.puts => CurrentEntry(worker'.caches, p.url) = p.resp]_vars

\* C19 (amended): as above, the network response being stored when the
\* request is a GET and the response is not partial (206); for any other
\* request or response the put stores nothing.
C19_FetchByKindStoringGets ==
  [][/\ AnsweredByKind
     /\ \A p \in worker.puts :
          p \notin worker'.puts =>
            IF p.method = "GET" /\ p.resp.status # 206
              THEN CurrentEntry(worker'.caches, p.url) = p.resp
              ELSE CurrentEntry(worker'.caches, p.url)
                     = CurrentEntry(worker.caches, p.url)]_vars

C19_Witness ==
  /\ worker.phase = "activated"
  /\ worker.request = Request("/assets/app.js", "no-cors", "same", "GET")
  /\ worker.answer.resp = Response(200, "network")
  /\ worker.puts = {}
  /\ CurrentEntry(worker.caches, "/assets/app.js") = Response(200, "network")

\* C20: once the activate step is complete the only cache is the current
\* one, and clients are claimed only when every deletion has finished and
\* no cache of another name is left.
C20_OnlyCurrentCacheLeft ==
  /\ worker.phase = "activated" => CacheKeys(worker.caches) = {CACHE_NAME}
  /\ worker.claimed =>
       /\ worker.pending = {}
       /\ CacheKeys(worker.caches) = {CACHE_NAME}

C20_Witness ==
  /\ worker.phase = "activated"
  /\ worker.claimed
  /\ events = MaxFetches
  /\ CacheKeys(worker.caches) = {CACHE_NAME}
  /\ CurrentEntry(worker.caches, "/index.html") = Response(200, "installed")

\* The sources in the order consulted: the backend is the first of them.
BackendFirst(called) == called # << >> /\ called[1] = "backend"

\* C21: buildAIReview consults the backend first and only when VITE_API_URL
\* is set, then Gemini and only when VITE_GOOGLE_API_KEY is set; Gemini is
\* not called after a backend response was parsed, and the default review
\* is returned only when no source yielded a parsed response.
C21_SourcesInOrder ==
  /\ build.pc = "backend" => (apiUrl /\ build.called = << >>)
  /\ build.pc = "gemini" =>
       /\ build.called \in {<< >>, <<"backend">>}
       /\ BackendFirst(build.called) = apiUrl
  /\ built.path # "none" =>
       /\ built.called \in
            {<< >>, <<"backend">>, <<"gemini">>, <<"backend", "gemini">>}
       /\ BackendFirst(built.called) = apiUrl
       /\ (\E i \in 1..Len(built.called) : built.called[i] = "gemini") => geminiKey
       /\ built.source = "backend" => built.called = <<"backend">>
       /\ built.source = "gemini" => built.called[Len(built.called)] = "gemini"
       /\ (built.path = "default") = (built.source = "none")

C21_Witness ==
  /\ built.path = "merged"
  /\ built.called = <<"backend", "gemini">>
  /\ built.source = "gemini"
  /\ ~loading

\* C22: in every reachable state of the flow 0 <= currentIndex < the number
\* of visible questions, and the current question and its answer record
\* exist.
C22_CurrentIndexInRange ==
  /\ 0 <= currentIndex
  /\ currentIndex < Len(visible(active, flowAnswers))
  /\ \E cur \in {Current} : cur.hasQ /\ cur.hasA

\* C23: the entry saved under form-progress-<M> only holds records of
\* questions of module M.
C23_EntryHoldsOwnQuestions ==
  \A m \in ModuleIds :
    storage[m].saved =>
      \A i \in 1..Len(storage[m].list) :
        \E j \in 1..Len(formContent(m).questions) :
          formContent(m).questions[j].id = storage[m].list[i].questionId

\* C24: whenever a review is held it was built for the module and locale
\* that are active now.
C24_ReviewOfActiveModule ==
  review # Null => (built.moduleKey = moduleKey /\ built.lang = lang)

\* C25: whenever a generation request is in flight the loading flag is true.
C25_LoadingWhileInFlight ==
  (~crashed /\ inflight # {}) => flowLoading

\* C26: the step that settles a generation request changes only the guidance
\* of the record of the question the request was issued for: every record
\* keeps its question, value, rating and length, and every other record its
\* guidance.
C26_SettleChangesGuidanceOnly ==
  [][\A r \in inflight :
       (r \notin inflight' /\ events' = events)
         => /\ Len(flowAnswers') = Len(flowAnswers)
            /\ \A i \in 1..Len(flowAnswers) :
                 /\ flowAnswers'[i].questionId = flowAnswers[i].questionId
                 /\ flowAnswers'[i].value = flowAnswers[i].value
                 /\ flowAnswers'[i].rating = flowAnswers[i].rating
                 /\ flowAnswers'[i].length = flowAnswers[i].length
                 /\ i # r.originalIndex =>
                      flowAnswers'[i].aiResponse = flowAnswers[i].aiResponse]_vars

\* A request settled after the user had edited its question.
C26_Witness ==
  /\ ~crashed
  /\ flowAnswers[1].aiResponse.kind = "parsed"
  /\ flowAnswers[1].aiResponse.prompt.input # flowAnswers[1].value
  /\ flowAnswers[1].value = Str("a")

\* The question shown and its record are ones the generation effect skips.
CurrentSkipped ==
  \E cur \in {Current} :
    mustSkip(formContent(active).questions[cur.originalIndex],
             flowAnswers[cur.originalIndex])

\* C27: for the question shown, the generation effect has no request scheduled
\* and the guidance is cleared when the question is star-enabled with rating 0
\* or not star-enabled with an empty value; in every other state a request is
\* scheduled after the debounce delay (the timer is armed, or has fired).
C27_SkipExactlyWhenUnanswered ==
  (~crashed /\ Current.hasA) =>
    /\ CurrentSkipped =>
         /\ ~timer.set
         /\ flowAnswers[Current.originalIndex].aiResponse = NoResponse
    /\ ~CurrentSkipped => (timer.set \/ issued > 0)

(***************************************************************************)
(* App: a session of answer changes on one module (src/App.tsx 586-594,    *)
(* 792-826, 828-830).                                                      *)
(***************************************************************************)
MaxAnswerEvents == 4

\* The stores after the effect on [moduleKey, lang] ran for a module.
InitAnswer ==
  /\ moduleKey \in ModuleIds
  /\ lang = "fa"
  /\ answers = EmptyObj
  /\ files = EmptyObj
  /\ proofs = EmptyObj
  /\ stars = EmptyObj
  /\ books = EmptyObj
  /\ review = Null
  /\ loading = FALSE
  /\ error = Null
  /\ build = NoBuild
  /\ built = NoBuilt
  /\ apiUrl = FALSE
  /\ geminiKey = FALSE
  /\ events = MaxAnswerEvents

NextAnswer ==
  \/ AnswerInput
  \/ FileInput
  \/ StarsInput
  \/ BooksInput

InitAnswerSession == InitAnswer /\ InitFlowIdle /\ probe = NoProbe /\ worker = NoWorker

SpecAnswer == InitAnswerSession /\ [][NextAnswer]_vars

\* What the stores hold for one question id.
StateOf(id, a, f, p, s, b) ==
  [answer |-> IF Has(a, id) THEN Get(a, id) ELSE Undef,
   file |-> IF Has(f, id) THEN Get(f, id) ELSE Undef,
   proof |-> IF Has(p, id) THEN Get(p, id) ELSE Undef,
   rating |-> IF Has(s, id) THEN Get(s, id) ELSE Undef,
   length |-> IF Has(b, id) THEN Get(b, id) ELSE Undef]

QuestionIds == {mod.questions[i].id : i \in 1..Len(mod.questions)}

\* C28: a change of one question's answer changes that question's entry of
\* the answer store only; the answer, rating, length and evidence stored for
\* every other question, one that the change hides included, stay as they
\* were, and a question that comes back is drawn from the state it had.
C28_AnswerChangeKeepsOthers ==
  [][answers' # answers =>
       /\ \E id \in QuestionIds :
            /\ Has(answers', id)
            /\ \A other \in QuestionIds \ {id} :
                 StateOf(other, answers', files', proofs', stars', books')
                   = StateOf(other, answers, files, proofs, stars, books)
       /\ KeySet(answers) \subseteq KeySet(answers')
       /\ <<files, proofs, stars, books>>' = <<files, proofs, stars, books>>]_vars

\* sa_utr was answered and given evidence, and is hidden by the next choice.
C28_Witness ==
  /\ moduleKey = "hmrc_forms"
  /\ Has(answers, "hmrc_flow")
  /\ Get(answers, "hmrc_flow") = Str("child_tax_credit")
  /\ Has(answers, "sa_utr")
  /\ Get(answers, "sa_utr") = Str("a")
  /\ Has(proofs, "sa_utr")
  /\ \A q \in Rendered : q.id # "sa_utr"

(***************************************************************************)
(* App: the session where every external call of a build settles: the      *)
(* fetch of the backend and the calls of the Gemini path return or fail.   *)
(***************************************************************************)
SpecAppFair ==
  /\ InitAppSession
  /\ [][NextApp]_vars
  /\ WF_vars(\E out \in BackendOutcomes : BackendStep(out))
  /\ WF_vars(\E out \in GeminiOutcomes : GeminiStep(out))

\* C29: a build that was started ends: loading is set back to false, and the
\* step that does so installs a review record, whatever the backend and
\* Gemini are (not configured, failing, answering with malformed content).
C29_BuildTerminates ==
  /\ loading ~> (~loading /\ review # Null)
  /\ [][(loading /\ ~loading') => (review' # Null /\ build'.pc = "idle")]_vars
  /\ [](loading <=> build.pc # "idle")

\* Backend and Gemini are both configured, the backend's body did not parse
\* and Gemini's call was rejected: the build ended on the local default.
C29_Witness ==
  /\ apiUrl
  /\ geminiKey
  /\ built.path = "default"
  /\ built.unparsed
  /\ built.called = <<"backend", "gemini">>
  /\ ~loading
  /\ review # Null

====
